---- MODULE Spec2Model ----
(***************************************************************************)
(* Complaint-to-department mapping and enrichment pipeline of the admin    *)
(* portal: the department mapping resolver (departmentMappingService.ts),  *)
(* its batch variant, and the enrichment / streaming read paths            *)
(* (enrichedComplaintService.ts, userComplaintsService.ts).                *)
(***************************************************************************)
EXTENDS Integers, Sequences, FiniteSets, TLC

VARIABLES
  civic_issues,   \* the civic_issues collection of each Firestore instance
  call,           \* the resolver call in progress
  prev,           \* what the previous resolver call handed to its caller
  batch,          \* the mapComplaintsToDepartments call in progress
  complaints,     \* the complaints collection of userDb
  now,            \* Date.now(), in hours
  listener,       \* the subscription made by listenToEnrichedComplaints
  handler,        \* the snapshot handler of the listener that is in flight
  delivered,      \* the argument of the latest invocation of the callback
  fetch,          \* the fetchEnrichedComplaints call in progress
  fetched,        \* what the latest fetchEnrichedComplaints call returned
  issues,         \* the issues prop of the component that uses useSLATracking
  slaBreachedIssues,  \* the state of useSLATracking
  notifications,  \* the notifications state of NotificationProvider
  signalled,      \* per issue, the sla_breach notifications of its current
                  \* breach episode
  input,          \* the argument of a call of the pipeline functions
  output,         \* what the latest such call returned
  written,        \* the processed_complaints and notifications collections
                  \* of adminDb
  monitor,        \* the subscription made by monitorIncomingComplaints and
                  \* its snapshot handlers in flight
  monitorDelivered,  \* the arguments of the invocations of its callback
  userListener,   \* the subscription made by listenToUserComplaints
  userDelivered,  \* the arguments of the invocations of its callback
  inflight,       \* the snapshot handlers of listenToEnrichedComplaints that
                  \* await their enrichments, oldest first
  callbacks,      \* the invocations of its callback, oldest first
  monitoringHook  \* a component that uses useComplaintProcessing: its
                  \* isMonitoring state, unsubscribeRef and the subscriptions
                  \* of monitorIncomingComplaints that are active

readVars == <<complaints, now, listener, handler, delivered, fetch, fetched>>

hookVars == <<issues, slaBreachedIssues, notifications, signalled>>

pipeVars == <<input, output>>

monitorVars == <<written, monitor, monitorDelivered>>

userVars == <<userListener, userDelivered>>

overlapVars == <<inflight, callbacks>>

otherVars == <<overlapVars, monitoringHook>>

moreVars == <<hookVars, pipeVars, monitorVars, userVars, otherVars>>

\* what the hook leaves alone
notHookVars ==
  <<civic_issues, call, prev, batch, complaints, listener, handler, delivered,
    fetch, fetched, pipeVars, monitorVars, userVars, otherVars>>

\* what a pipeline call leaves alone
notPipeVars ==
  <<call, prev, batch, complaints, listener, handler, delivered, fetch, fetched,
    hookVars, monitorVars, userVars, otherVars>>

vars == <<civic_issues, call, prev, batch, readVars, moreVars>>

(***************************************************************************)
(* Bounds and value domains                                                *)
(***************************************************************************)
\* largest number of rows held by one civic_issues collection
MaxRows == 2

\* largest number of complaints handed to mapComplaintsToDepartments
MaxBatch == 2

\* milliseconds that may pass while the batch computes its keys
MaxMs == 1

\* a field that is undefined in the JavaScript object / Firestore document
Absent == "<undefined>"

Categories == {"Pothole", "Garbage"}
Cities == {"Delhi", "Mumbai"}

\* the two Firestore instances of config/firebase.ts
Stores == {"adminDb", "userDb"}

\* department part of a mapping row; "" is a row without a status field
DeptRecords ==
  { [department |-> "X", higher_authority |-> "Head of X", status |-> ""],
    [department |-> "Y", higher_authority |-> "Head of Y", status |-> "inactive"] }

\* DepartmentInfo documents of the civic_issues collection
Rows ==
  { [category |-> c, city |-> y, department |-> d.department,
     higher_authority |-> d.higher_authority, status |-> d.status] :
      c \in Categories, y \in Cities, d \in DeptRecords }

\* a collection is the sequence of its documents in document-id order, the
\* order in which Firestore returns the documents of a query without orderBy
Tables == UNION { [1..n -> Rows] : n \in 0..MaxRows }

\* Complaint objects handed to the resolver; a malformed complaint lacks a field
Complaints == [category : Categories \cup {Absent}, city : Cities \cup {Absent}]

(***************************************************************************)
(* Department mapping resolver: departmentMappingService.ts                *)
(***************************************************************************)
\* JavaScript  a || b  on strings: the empty string and undefined are falsy
OrElse(a, b) == IF a = "" \/ a = Absent THEN b ELSE a

\* limit(1) over a result whose order changes from one call to the next
Limit1Unordered(docs) ==
  IF docs = <<>> THEN <<>> ELSE <<docs[IF prev.has THEN Len(docs) ELSE 1]>>

\* limit(1): the first document of the query result, if any
Limit1(docs) == IF docs = <<>> THEN <<>> ELSE <<docs[1]>>

\* the exact-match query with the city predicate left out
ExactQueryWithoutCity(tbl, c) ==
  IF SelectSeq(tbl, LAMBDA r : r.category = c.category) = <<>>
  THEN <<>>
  ELSE <<SelectSeq(tbl, LAMBDA r : r.category = c.category)[1]>>

\* where('category','==',c.category), where('city','==',c.city), limit(1)
ExactQuery(tbl, c) ==
  Limit1(SelectSeq(tbl, LAMBDA r : r.category = c.category /\ r.city = c.city))

\* the category-only query with the category predicate left out
CategoryQueryUnfiltered(tbl, c) == IF tbl = <<>> THEN <<>> ELSE <<tbl[1]>>

\* where('category','==',c.category), limit(1)
CategoryQuery(tbl, c) ==
  Limit1(SelectSeq(tbl, LAMBDA r : r.category = c.category))

\* where() rejects an undefined value: the query construction throws
InvalidQuery(c) == c.category = Absent \/ c.city = Absent

\* the result returned for a document found by the exact-match query
ExactMatchResult(data, c) ==
  [department |-> data.department,
   higher_authority |-> data.higher_authority,
   status |-> OrElse(data.status, "active"),
   isDefault |-> FALSE,
   matchedCriteria |-> [category |-> c.category, city |-> c.city]]

\* the category-only result echoing the complaint's city
CategoryMatchResultEchoingCity(data, c) ==
  [department |-> data.department,
   higher_authority |-> data.higher_authority,
   status |-> OrElse(data.status, "active"),
   isDefault |-> FALSE,
   matchedCriteria |-> [category |-> c.category, city |-> c.city]]

\* the result returned for a document found by the category-only query
CategoryMatchResult(data, c) ==
  [department |-> data.department,
   higher_authority |-> data.higher_authority,
   status |-> OrElse(data.status, "active"),
   isDefault |-> FALSE,
   matchedCriteria |-> [category |-> c.category, city |-> data.city]]

\* the default department returned when nothing matched and in the catch block
DefaultResult(c) ==
  [department |-> "Other Department",
   higher_authority |-> "Municipal Commissioner / Executive Officer - Other Department",
   status |-> "active",
   isDefault |-> TRUE,
   matchedCriteria |-> [category |-> c.category, city |-> c.city]]

NoResult ==
  [department |-> "", higher_authority |-> "", status |-> "", isDefault |-> FALSE,
   matchedCriteria |-> [category |-> Absent, city |-> Absent]]

NoComplaint == [category |-> Absent, city |-> Absent]

\* a catch block that logs and rethrows
CatchBlockRethrows(c) == [pc |-> "thrown", result |-> NoResult]

\* catch (error) { ... return <default department> }: the error is consumed
CatchBlock(c) == [pc |-> "done", result |-> DefaultResult(c)]

\* mapComplaintToDepartmentFrontend: result for the exact-match document
ExactMatchResultFrontend(data, c) ==
  [department |-> data.department,
   higher_authority |-> data.higher_authority,
   status |-> OrElse(data.status, "active"),
   isDefault |-> FALSE,
   matchedCriteria |-> [category |-> c.category, city |-> c.city]]

\* a frontend category-only result echoing the complaint's city
CategoryMatchResultFrontendEchoingCity(data, c) ==
  [department |-> data.department,
   higher_authority |-> data.higher_authority,
   status |-> OrElse(data.status, "active"),
   isDefault |-> FALSE,
   matchedCriteria |-> [category |-> c.category, city |-> c.city]]

\* mapComplaintToDepartmentFrontend: result for the category-only document
CategoryMatchResultFrontend(data, c) ==
  [department |-> data.department,
   higher_authority |-> data.higher_authority,
   status |-> OrElse(data.status, "active"),
   isDefault |-> FALSE,
   matchedCriteria |-> [category |-> c.category, city |-> data.city]]

\* mapComplaintToDepartmentFrontend: the default department
DefaultResultFrontend(c) ==
  [department |-> "Other Department",
   higher_authority |-> "Municipal Commissioner / Executive Officer - Other Department",
   status |-> "active",
   isDefault |-> TRUE,
   matchedCriteria |-> [category |-> c.category, city |-> c.city]]

\* a frontend catch block that logs and rethrows
CatchBlockFrontendRethrows(c) == [pc |-> "thrown", result |-> NoResult]

\* mapComplaintToDepartmentFrontend: its catch block
CatchBlockFrontend(c) == [pc |-> "done", result |-> DefaultResultFrontend(c)]

Resolvers == {"mapComplaintToDepartment", "mapComplaintToDepartmentFrontend"}

IdleCall ==
  [pc |-> "idle", fn |-> "mapComplaintToDepartment", complaint |-> NoComplaint,
   result |-> NoResult, err |-> "none"]

NoPrev ==
  [has |-> FALSE, pc |-> "idle", fn |-> "mapComplaintToDepartment",
   complaint |-> NoComplaint, result |-> NoResult, err |-> "none"]

\* new Map()
EmptyMap == [x \in {} |-> NoResult]

IdleBatch == [pc |-> "idle", items |-> <<>>, results |-> EmptyMap]

(***************************************************************************)
(* Complaint documents read by the admin portal                            *)
(***************************************************************************)
\* largest number of documents in the complaints collection
MaxDocs == 2

\* Date.now() when a behaviour starts, in hours since the epoch
ClockStart == 50

\* limit(options.limitCount || 50) and limitCount = 50
DefaultLimit == 50

\* a Firestore Timestamp, with toDate()
Ts(h) == [kind |-> "Timestamp", hours |-> h]

\* a createdAt that is no date: a plain {seconds, nanoseconds} map, which has
\* no toDate() and which new Date() turns into Invalid Date
BadDate == [kind |-> "map", hours |-> 0]

\* the JavaScript value undefined where a date is expected
Undefined == [kind |-> "undefined", hours |-> 0]

\* a legacy document: flat fields
FlatDoc ==
  [id |-> "flat",
   data |-> [category |-> "Pothole", city |-> "Delhi", priority |-> "High",
             createdAt |-> Ts(2)]]

\* a document of the new mobile app: nested location, no priority yet
NestedDoc ==
  [id |-> "nested",
   data |-> [category |-> "Pothole", location |-> [city |-> "Delhi"],
             createdAt |-> Ts(2)]]

\* a legacy document, already resolved, whose createdAt is not a date
BadDateDoc ==
  [id |-> "badDate",
   data |-> [category |-> "Pothole", city |-> "Delhi", priority |-> "High",
             status |-> "Resolved", createdAt |-> BadDate]]

\* a document of the new mobile app that has timeline.created and no createdAt
NoDateDoc ==
  [id |-> "noDate",
   data |-> [category |-> "Garbage", location |-> [city |-> "Mumbai"],
             timeline |-> [created |-> Ts(2)]]]

DocPool == {FlatDoc, NestedDoc, BadDateDoc, NoDateDoc}

\* the complaints collection: a set of documents with distinct ids
Collections == { S \in SUBSET DocPool : Cardinality(S) <= MaxDocs }

\* EnrichedComplaintFilters without a field
NoFilters == [x \in {} |-> TRUE]

\* EnrichedFetchOptions: the defaults, and an ordering by category with the
\* filter isDefaultMapping = false
DefaultOptions == [orderByField |-> Absent, filters |-> NoFilters]

Options ==
  { DefaultOptions,
    [orderByField |-> "category", filters |-> [isDefaultMapping |-> FALSE]] }

\* mapping tables under which the complaints above are read: no row, an exact
\* row, a row of the category under another city, and both
SampleTables ==
  LET delhi == [category |-> "Pothole", city |-> "Delhi", department |-> "X",
                higher_authority |-> "Head of X", status |-> ""]
      mumbai == [category |-> "Pothole", city |-> "Mumbai", department |-> "Y",
                 higher_authority |-> "Head of Y", status |-> "inactive"]
  IN { <<>>, <<delhi>>, <<mumbai>>, <<mumbai, delhi>> }

\* no subscription; unsubscribed records that the caller has invoked the
\* function listenToEnrichedComplaints returned
IdleListener ==
  [active |-> FALSE, fresh |-> FALSE, unsubscribed |-> FALSE,
   options |-> DefaultOptions]

IdleHandler == [pc |-> "idle", items |-> <<>>, options |-> DefaultOptions]

\* event is the path of the handler that ran last, calls the number of times
\* it invoked the callback, threw whether an exception left it
NothingDelivered ==
  [has |-> FALSE, list |-> <<>>, answered |-> TRUE, event |-> "none",
   calls |-> 0, threw |-> FALSE]

IdleFetch == [pc |-> "idle", items |-> <<>>, options |-> DefaultOptions]

NothingFetched == [has |-> FALSE, threw |-> FALSE, list |-> <<>>, answered |-> TRUE]

\* no complaint is stored and nothing reads the complaints collection
ReadsIdle ==
  /\ complaints = {}
  /\ now = ClockStart
  /\ listener = IdleListener
  /\ handler = IdleHandler
  /\ delivered = NothingDelivered
  /\ fetch = IdleFetch
  /\ fetched = NothingFetched

(***************************************************************************)
(* SLA tracking hook: useSLATracking                                       *)
(***************************************************************************)
\* largest number of issues handed to useSLATracking
MaxIssues == 2

\* number of times the one-minute interval of the hook fires
MaxTicks == 2

IssueIds == <<"i1", "i2", "i3">>

\* Issue.status
IssueStatuses == {"Open", "Resolved", "Escalated"}

\* an ISO date string; new Date(string) gives the instant back
Iso(h) == [iso |-> h]

\* slaDeadline of the issues: already past at mount, or reached later
IssueDeadlines == {Iso(ClockStart - 1), Iso(ClockStart + 1)}

\* the issues prop: issue k carries the k-th id
IssueLists ==
  UNION { { l \in [1..n -> [id : {IssueIds[k] : k \in 1..n},
                            status : IssueStatuses,
                            slaDeadline : IssueDeadlines]] :
              \A k \in 1..n : l[k].id = IssueIds[k] } : n \in 1..MaxIssues }

NoSignals == [id \in {} |-> 0]

\* no component uses useSLATracking
HookIdle ==
  /\ issues = <<>>
  /\ slaBreachedIssues = <<>>
  /\ notifications = <<>>
  /\ signalled = NoSignals

NoInput == [kind |-> "none"]

NoOutput == [kind |-> "none"]

\* no pipeline function has been called
PipeIdle ==
  /\ input = NoInput
  /\ output = NoOutput

\* nothing is written to adminDb and no snapshot handler runs
NoDailyStatistics == [exists |-> FALSE, totalComplaints |-> 0]

NothingWritten ==
  [processed_complaints |-> <<>>, notifications |-> <<>>,
   statistics |-> NoDailyStatistics]

\* last is the way the handler that ended last ended, and the ids of the
\* complaints of its snapshot
NoRunEnded == [outcome |-> "none", ids |-> <<>>]

IdleMonitor == [active |-> FALSE, fresh |-> FALSE, runs |-> <<>>, last |-> NoRunEnded]

MonitorIdle ==
  /\ written = NothingWritten
  /\ monitor = IdleMonitor
  /\ monitorDelivered = <<>>

IdleUserListener == [active |-> FALSE, fresh |-> FALSE]

NothingDeliveredToUser ==
  [has |-> FALSE, list |-> <<>>, event |-> "none", calls |-> 0, threw |-> FALSE]

UserIdle ==
  /\ userListener = IdleUserListener
  /\ userDelivered = NothingDeliveredToUser

\* the subsystems that a specification leaves out are idle
OverlapIdle ==
  /\ inflight = <<>>
  /\ callbacks = <<>>

\* a component that uses useComplaintProcessing after its first render:
\* isMonitoring is the state with the updates that are queued, rendered the
\* value the callbacks of the latest render closed over, closures the values
\* closed over by the callbacks of all renders, ref is unsubscribeRef.current
\* (0 for null), subs the subscriptions that are active, made the number of
\* subscriptions made, processedComplaints the number of lists the state
\* holds, received the subscriptions whose callback has been invoked
MountedHook ==
  [mounted |-> TRUE, isMonitoring |-> FALSE, rendered |-> FALSE,
   closures |-> {FALSE}, ref |-> 0, subs |-> {}, made |-> 0,
   processedComplaints |-> 0, received |-> {}]

OtherIdle == OverlapIdle /\ monitoringHook = MountedHook

MoreIdle == HookIdle /\ PipeIdle /\ MonitorIdle /\ UserIdle /\ OtherIdle

(***************************************************************************)
(* Calls of the pipeline functions on one complaint                        *)
(***************************************************************************)
\* complaint.status: the statuses of the fixed table, two others, the empty
\* string and a missing status
ComplaintStatuses ==
  {"Resolved", "Closed", "In Progress", "in_progress", "Escalated", "Assigned",
   "Open", "", Absent}

Priorities == {"High", "Medium", "Low"}

\* a category of each priority class of determinePriority
PipelineCategories == {"Streetlight", "Pothole", "Noise"}

Descriptions == {"", "lamp broken", "Emergency near school"}

\* UserComplaint objects; the same fields are read as an IncomingComplaint
PipelineComplaints ==
  [complaintId : {"c1"}, category : PipelineCategories, city : {"Delhi"},
   status : ComplaintStatuses, priority : Priorities,
   createdAt : {Ts(2), BadDate}, description : Descriptions]

\* Issue objects handed to getSLAStatus
PipelineIssues ==
  [id : {"i1"}, status : IssueStatuses,
   slaDeadline : IssueDeadlines \cup {Iso(ClockStart)}]

PipelineInputs ==
  { [kind |-> "complaint", value |-> c] : c \in PipelineComplaints }
    \cup { [kind |-> "issue", value |-> i] : i \in PipelineIssues }

\* mapping tables with an urgent department, a department whose name holds
\* "Water" and a department that is neither
PipelineTables ==
  LET row(category, department) ==
        [category |-> category, city |-> "Delhi", department |-> department,
         higher_authority |-> "Head", status |-> ""]
  IN { <<>>,
       <<row("Pothole", "Roads Department"), row("Streetlight", "Water Department")>>,
       <<row("Pothole", "Water Department"), row("Noise", "Water Supply Board")>>,
       <<row("Pothole", "Water Supply Board"), row("Noise", "Roads Department")>> }

\* Date.now() at the call: before one SLA deadline of the model and on it
PipelineClocks == {ClockStart, ClockStart + 24}

TypeOK ==
  /\ civic_issues \in [Stores -> Tables]
  /\ call.pc \in {"idle", "q1", "q2", "hung", "done", "thrown"}
  /\ call.fn \in Resolvers
  /\ call.complaint \in Complaints
  /\ prev.has \in BOOLEAN

\* the admin store holds any table; the read-side store holds the same rows
\* or none
Init ==
  /\ civic_issues \in [Stores -> Tables]
  /\ civic_issues["userDb"] \in {civic_issues["adminDb"], <<>>}
  /\ call = IdleCall
  /\ prev = NoPrev
  /\ batch = IdleBatch
  /\ ReadsIdle
  /\ MoreIdle

\* a caller invokes mapComplaintToDepartment: the exact-match query is built
\* and issued; an undefined category or city makes where() throw inside the
\* try block, which the catch block turns into the default result
Invoke(c) ==
  /\ call.pc = "idle"
  /\ call' = IF InvalidQuery(c)
             THEN [pc |-> CatchBlock(c).pc, fn |-> "mapComplaintToDepartment",
                   complaint |-> c, result |-> CatchBlock(c).result, err |-> "query"]
             ELSE [pc |-> "q1", fn |-> "mapComplaintToDepartment",
                   complaint |-> c, result |-> NoResult, err |-> "none"]
  /\ UNCHANGED <<moreVars, civic_issues, prev, batch, readVars>>

\* getDocs(q) resolves: a match is returned, otherwise the category query is issued
ExactAnswered ==
  /\ call.pc = "q1"
  /\ call.fn = "mapComplaintToDepartment"
  /\ LET snapshot == ExactQuery(civic_issues["adminDb"], call.complaint)
     IN call' = IF snapshot # <<>>
                THEN [call EXCEPT !.pc = "done",
                        !.result = ExactMatchResult(snapshot[1], call.complaint)]
                ELSE [call EXCEPT !.pc = "q2"]
  /\ UNCHANGED <<moreVars, civic_issues, prev, batch, readVars>>

\* getDocs(categoryQuery) resolves
CategoryAnswered ==
  /\ call.pc = "q2"
  /\ call.fn = "mapComplaintToDepartment"
  /\ LET categorySnapshot == CategoryQuery(civic_issues["adminDb"], call.complaint)
     IN call' = IF categorySnapshot # <<>>
                THEN [call EXCEPT !.pc = "done",
                        !.result = CategoryMatchResult(categorySnapshot[1], call.complaint)]
                ELSE [call EXCEPT !.pc = "done", !.result = DefaultResult(call.complaint)]
  /\ UNCHANGED <<moreVars, civic_issues, prev, batch, readVars>>

\* getDocs rejects: the catch block returns the default department
QueryFailed ==
  /\ call.pc \in {"q1", "q2"}
  /\ call.fn = "mapComplaintToDepartment"
  /\ call' = [call EXCEPT !.pc = CatchBlock(call.complaint).pc,
                          !.result = CatchBlock(call.complaint).result,
                          !.err = call.pc]
  /\ UNCHANGED <<moreVars, civic_issues, prev, batch, readVars>>

\* getDocs never settles: the await has no timeout, the call stays suspended
QueryHangs ==
  /\ call.pc \in {"q1", "q2"}
  /\ call.fn = "mapComplaintToDepartment"
  /\ call' = [call EXCEPT !.pc = "hung"]
  /\ UNCHANGED <<moreVars, civic_issues, prev, batch, readVars>>

\* a caller invokes mapComplaintToDepartmentFrontend
InvokeFrontend(c) ==
  /\ call.pc = "idle"
  /\ call' = IF InvalidQuery(c)
             THEN [pc |-> CatchBlockFrontend(c).pc,
                   fn |-> "mapComplaintToDepartmentFrontend", complaint |-> c,
                   result |-> CatchBlockFrontend(c).result, err |-> "query"]
             ELSE [pc |-> "q1", fn |-> "mapComplaintToDepartmentFrontend",
                   complaint |-> c, result |-> NoResult, err |-> "none"]
  /\ UNCHANGED <<moreVars, civic_issues, prev, batch, readVars>>

\* frontend: getDocs(q) on userDb resolves
ExactAnsweredFrontend ==
  /\ call.pc = "q1"
  /\ call.fn = "mapComplaintToDepartmentFrontend"
  /\ LET snapshot == ExactQuery(civic_issues["userDb"], call.complaint)
     IN call' = IF snapshot # <<>>
                THEN [call EXCEPT !.pc = "done",
                        !.result = ExactMatchResultFrontend(snapshot[1], call.complaint)]
                ELSE [call EXCEPT !.pc = "q2"]
  /\ UNCHANGED <<moreVars, civic_issues, prev, batch, readVars>>

\* frontend: getDocs(categoryQuery) on userDb resolves
CategoryAnsweredFrontend ==
  /\ call.pc = "q2"
  /\ call.fn = "mapComplaintToDepartmentFrontend"
  /\ LET categorySnapshot == CategoryQuery(civic_issues["userDb"], call.complaint)
     IN call' = IF categorySnapshot # <<>>
                THEN [call EXCEPT !.pc = "done",
                        !.result = CategoryMatchResultFrontend(categorySnapshot[1],
                                                               call.complaint)]
                ELSE [call EXCEPT !.pc = "done",
                        !.result = DefaultResultFrontend(call.complaint)]
  /\ UNCHANGED <<moreVars, civic_issues, prev, batch, readVars>>

\* frontend: getDocs rejects
QueryFailedFrontend ==
  /\ call.pc \in {"q1", "q2"}
  /\ call.fn = "mapComplaintToDepartmentFrontend"
  /\ call' = [call EXCEPT !.pc = CatchBlockFrontend(call.complaint).pc,
                          !.result = CatchBlockFrontend(call.complaint).result,
                          !.err = call.pc]
  /\ UNCHANGED <<moreVars, civic_issues, prev, batch, readVars>>

\* frontend: getDocs never settles
QueryHangsFrontend ==
  /\ call.pc \in {"q1", "q2"}
  /\ call.fn = "mapComplaintToDepartmentFrontend"
  /\ call' = [call EXCEPT !.pc = "hung"]
  /\ UNCHANGED <<moreVars, civic_issues, prev, batch, readVars>>

\* the promise of the resolver is settled and the caller takes the outcome
Return ==
  /\ call.pc \in {"done", "thrown"}
  /\ prev' = [has |-> TRUE, pc |-> call.pc, fn |-> call.fn,
              complaint |-> call.complaint, result |-> call.result, err |-> call.err]
  /\ call' = IdleCall
  /\ UNCHANGED <<moreVars, civic_issues, batch, readVars>>

Next ==
  \/ \E c \in Complaints : Invoke(c)
  \/ ExactAnswered
  \/ CategoryAnswered
  \/ QueryFailed
  \/ QueryHangs
  \/ \E c \in Complaints : InvokeFrontend(c)
  \/ ExactAnsweredFrontend
  \/ CategoryAnsweredFrontend
  \/ QueryFailedFrontend
  \/ QueryHangsFrontend
  \/ Return

Spec == Init /\ [][Next]_vars

\* the event loop runs the continuation of every settled promise; nothing
\* obliges the store to settle a query, and nothing obliges callers to call
FairSpec ==
  Spec /\ WF_vars(ExactAnswered) /\ WF_vars(CategoryAnswered)
       /\ WF_vars(QueryFailed) /\ WF_vars(ExactAnsweredFrontend)
       /\ WF_vars(CategoryAnsweredFrontend) /\ WF_vars(QueryFailedFrontend)
       /\ WF_vars(Return)

\* mapComplaintToDepartment as a function of the table, the complaint and the
\* query at which the store fails ("none", "q1", "q2")
mapComplaintToDepartment(tbl, c, fault) ==
  IF InvalidQuery(c) \/ fault = "q1"
  THEN CatchBlock(c)
  ELSE LET snapshot == ExactQuery(tbl, c)
       IN IF snapshot # <<>>
          THEN [pc |-> "done", result |-> ExactMatchResult(snapshot[1], c)]
          ELSE IF fault = "q2"
               THEN CatchBlock(c)
               ELSE LET categorySnapshot == CategoryQuery(tbl, c)
                    IN IF categorySnapshot # <<>>
                       THEN [pc |-> "done",
                             result |-> CategoryMatchResult(categorySnapshot[1], c)]
                       ELSE [pc |-> "done", result |-> DefaultResult(c)]

\* the query of mapComplaintToDepartment that actually failed under a fault
FailedAt(tbl, c, fault) ==
  IF InvalidQuery(c) THEN "query"
  ELSE IF fault = "q1" THEN "q1"
  ELSE IF fault = "q2" /\ ExactQuery(tbl, c) = <<>> THEN "q2"
  ELSE "none"

StoreFaults == {"none", "q1", "q2"}

(***************************************************************************)
(* Batch resolver: mapComplaintsToDepartments                              *)
(***************************************************************************)
ComplaintIds == {"c1", "c2"}

\* complaints of a batch: the category may be missing (malformed item), the
\* complaintId is optional
BatchComplaints ==
  [category : {"Pothole", Absent}, city : Cities, complaintId : ComplaintIds \cup {Absent}]

\* arrays handed to the batch resolver; a complaintId identifies one complaint
BatchInputs ==
  { cs \in UNION { [1..n -> BatchComplaints] : n \in 1..MaxBatch } :
      \A i, j \in 1..Len(cs) :
        (i # j /\ cs[i].complaintId # Absent) => cs[i].complaintId # cs[j].complaintId }

\* Date.now() as read by the successive map callbacks of one batch
BatchClocks(n) ==
  { ts \in [1..n -> 0..MaxMs] : \A i, j \in 1..n : i <= j => ts[i] <= ts[j] }

\* complaint.complaintId || `${complaint.category}_${complaint.city}_${Date.now()}`
ComplaintKey(c, ms) ==
  IF c.complaintId # Absent /\ c.complaintId # ""
  THEN [id |-> c.complaintId, category |-> "", city |-> "", ms |-> 0]
  ELSE [id |-> "", category |-> c.category, city |-> c.city, ms |-> ms]

\* Map.prototype.set
MapSet(m, k, v) == [x \in (DOMAIN m) \cup {k} |-> IF x = k THEN v ELSE m[x]]

\* resultsArray.forEach(({complaintId, departmentInfo}) => results.set(...))
RECURSIVE SetAll(_, _, _)
SetAll(m, items, i) ==
  IF i > Len(items) THEN m
  ELSE SetAll(MapSet(m, items[i].complaintId, items[i].departmentInfo), items, i + 1)

\* complaints.map(async ...): every callback runs up to its first await, so
\* all keys are computed and all lookups issued before any lookup settles
BatchStart(cs, ts) ==
  /\ batch.pc = "idle"
  /\ batch' = [pc |-> "pending",
               items |-> [i \in 1..Len(cs) |->
                           [complaint |-> cs[i],
                            complaintId |-> ComplaintKey(cs[i], ts[i]),
                            state |-> "pending",
                            departmentInfo |-> NoResult,
                            err |-> "none"]],
               results |-> EmptyMap]
  /\ UNCHANGED <<moreVars, civic_issues, call, prev, readVars>>

\* the lookup of one item settles: await mapComplaintToDepartment(complaint)
ItemSettles(i, fault) ==
  /\ batch.pc = "pending"
  /\ i \in 1..Len(batch.items)
  /\ batch.items[i].state = "pending"
  /\ LET c == [category |-> batch.items[i].complaint.category,
               city |-> batch.items[i].complaint.city]
         out == mapComplaintToDepartment(civic_issues["adminDb"], c, fault)
     IN batch' = [batch EXCEPT
                    !.items[i].state = IF out.pc = "done" THEN "fulfilled" ELSE "rejected",
                    !.items[i].departmentInfo = out.result,
                    !.items[i].err = FailedAt(civic_issues["adminDb"], c, fault)]
  /\ UNCHANGED <<moreVars, civic_issues, call, prev, readVars>>

\* await Promise.all(promises): a rejection is caught and logged, leaving the
\* map empty; otherwise every pair is written to the map in array order
BatchJoin ==
  /\ batch.pc = "pending"
  /\ \A i \in 1..Len(batch.items) : batch.items[i].state # "pending"
  /\ batch' = [batch EXCEPT
                 !.pc = "returned",
                 !.results =
                   IF \E i \in 1..Len(batch.items) : batch.items[i].state = "rejected"
                   THEN EmptyMap
                   ELSE SetAll(EmptyMap, batch.items, 1)]
  /\ UNCHANGED <<moreVars, civic_issues, call, prev, readVars>>

\* the caller has taken the map
BatchDone ==
  /\ batch.pc = "returned"
  /\ batch' = IdleBatch
  /\ UNCHANGED <<moreVars, civic_issues, call, prev, readVars>>

InitBatch ==
  /\ civic_issues \in [Stores -> Tables]
  /\ civic_issues["userDb"] = <<>>
  /\ call = IdleCall
  /\ prev = NoPrev
  /\ batch = IdleBatch
  /\ ReadsIdle
  /\ MoreIdle

NextBatch ==
  \/ \E cs \in BatchInputs : \E ts \in BatchClocks(Len(cs)) : BatchStart(cs, ts)
  \/ \E i \in 1..MaxBatch, fault \in StoreFaults : ItemSettles(i, fault)
  \/ BatchJoin
  \/ BatchDone

SpecBatch == InitBatch /\ [][NextBatch]_vars

(***************************************************************************)
(* Reading complaints: userComplaintsService.ts, enrichedComplaintService.ts*)
(***************************************************************************)
Has(d, k) == k \in DOMAIN d

\* a string field of a document, undefined when the document lacks it
Str(d, k) == IF k \in DOMAIN d THEN d[k] ELSE Absent

\* data.location?.field
LocationStr(data, k) ==
  IF Has(data, "location") THEN Str(data.location, k) ELSE Absent

\* spread: the fields of b over the fields of a
Merge(a, b) ==
  [k \in (DOMAIN a) \cup (DOMAIN b) |-> IF k \in DOMAIN b THEN b[k] ELSE a[k]]

\* extractCityFromAddress of the addresses of the model: a missing address
\* meets the guard; "Mumbai" is one part that is a key of CITY_MAPPINGS;
\* "400001" is one part of digits only, which no strategy takes for a city
ExtractCityFromAddress(address) ==
  CASE address = Absent -> "Unknown"
    [] address = "Mumbai" -> "Mumbai"
    [] address = "400001" -> "Unknown"

\* parseAddress(address).pincode: the first run of six digits, if any
ParsedPincode(address) ==
  CASE address = Absent -> Absent
    [] address = "Mumbai" -> Absent
    [] address = "400001" -> "400001"

\* the strings that orderBy compares, in UTF-8 byte order
StringOrder ==
  <<"Garbage", "Pothole", "badDate", "flat", "full", "full2", "nested", "noDate">>

Rank(s) == CHOOSE i \in 1..Len(StringOrder) : StringOrder[i] = s

\* Firestore orders values of different types by type: timestamps before
\* strings before maps
TypeRank(kind) ==
  CASE kind = "Timestamp" -> 1 [] kind = "string" -> 2 [] kind = "map" -> 3

\* the position of a document under orderBy(field): the value, then the id
SortKey(doc, field) ==
  IF field = "createdAt"
  THEN <<TypeRank(doc.data[field].kind), doc.data[field].hours, Rank(doc.id)>>
  ELSE <<TypeRank("string"), Rank(doc.data[field]), Rank(doc.id)>>

KeyLess(a, b) ==
  \/ a[1] < b[1]
  \/ a[1] = b[1] /\ a[2] < b[2]
  \/ a[1] = b[1] /\ a[2] = b[2] /\ a[3] < b[3]

\* orderBy(field, 'desc'): only documents that have the field are returned
RECURSIVE OrderByDesc(_, _)
OrderByDesc(docs, field) ==
  IF docs = {} THEN <<>>
  ELSE LET top == CHOOSE d \in docs :
                    \A e \in docs \ {d} : KeyLess(SortKey(e, field), SortKey(d, field))
       IN <<top>> \o OrderByDesc(docs \ {top}, field)

Limit(docs, n) == SubSeq(docs, 1, IF Len(docs) < n THEN Len(docs) ELSE n)

\* the query both read paths issue on the complaints collection
ComplaintsQuery(collection, options) ==
  LET field == OrElse(options.orderByField, "createdAt")
  IN Limit(OrderByDesc({d \in collection : Has(d.data, field)}, field), DefaultLimit)

\* fetchUserComplaints: the UserComplaint built from one document
FetchedComplaint(doc) ==
  LET data == doc.data
      address == OrElse(LocationStr(data, "address"), Str(data, "address"))
  IN [complaintId |-> OrElse(Str(data, "complaintId"), doc.id),
      category |-> OrElse(Str(data, "category"), "Unknown"),
      city |-> OrElse(LocationStr(data, "city"),
                OrElse(Str(data, "city"),
                  OrElse(ExtractCityFromAddress(address),
                    OrElse(Str(data, "ward"), "Unknown")))),
      createdAt |-> IF Has(data, "createdAt") THEN data.createdAt
                    ELSE IF Has(data, "timeline") /\ Has(data.timeline, "created")
                         THEN data.timeline.created
                         ELSE Undefined,
      status |-> OrElse(Str(data, "status"), "Open"),
      priority |-> OrElse(Str(data, "priority"), "Medium")]

\* listenToEnrichedComplaints: the UserComplaint its snapshot handler builds
ListenedComplaint(doc) ==
  LET data == doc.data
  IN [complaintId |-> OrElse(Str(data, "complaintId"), doc.id),
      category |-> OrElse(Str(data, "category"), "Unknown"),
      city |-> OrElse(Str(data, "city"), OrElse(Str(data, "ward"), "Unknown")),
      createdAt |-> IF Has(data, "createdAt") THEN data.createdAt ELSE Undefined,
      status |-> OrElse(Str(data, "status"), "Unknown"),
      priority |-> OrElse(Str(data, "priority"), "Unknown")]

\* complaint.createdAt?.toDate ? complaint.createdAt.toDate()
\*                             : new Date(complaint.createdAt)
ToDate(v) ==
  IF v.kind \in {"Timestamp", "string"}
  THEN [valid |-> TRUE, hours |-> v.hours]
  ELSE [valid |-> FALSE, hours |-> 0]

\* Math.floor((Date.now() - createdAt.getTime()) / one day); NaN for an
\* invalid date
DaysSince(clock, date) ==
  IF date.valid THEN [nan |-> FALSE, n |-> (clock - date.hours) \div 24]
  ELSE [nan |-> TRUE, n |-> 0]

\* a status compared as it is stored
ToLowerCaseSkipped(s) == s

\* String.prototype.toLowerCase on the status values of the model
ToLowerCase(s) ==
  CASE s = "Open" -> "open"
    [] s = "Unknown" -> "unknown"
    [] s = "Resolved" -> "resolved"
    [] s = "Closed" -> "closed"
    [] s = "In Progress" -> "in progress"
    [] s = "Escalated" -> "escalated"
    [] s = "Assigned" -> "assigned"
    [] OTHER -> s

\* the processing status derived from the stored status and the mapping
ProcessingStatus(status, isDefault) ==
  LET byMapping == IF isDefault THEN "pending" ELSE "assigned"
  IN IF status = "" \/ status = Absent THEN byMapping
     ELSE CASE ToLowerCase(status) \in {"resolved", "closed"} -> "resolved"
            [] ToLowerCase(status) \in {"in progress", "in_progress"} -> "in_progress"
            [] ToLowerCase(status) = "escalated" -> "escalated"
            [] ToLowerCase(status) = "assigned" -> "assigned"
            [] OTHER -> byMapping

SlaHours(priority) == IF priority = "High" THEN 24 ELSE 72

\* Date.prototype.toLocaleDateString('en-IN', ...): "Invalid Date" for an
\* invalid date, never an exception
ToLocaleDateString(date, style) ==
  [locale |-> "en-IN", style |-> style, valid |-> date.valid, hours |-> date.hours]

\* enrichComplaintWithDepartment: the object its try block returns
EnrichedRecord(complaint, mapping, clock) ==
  LET createdAt == ToDate(complaint.createdAt)
  IN Merge(complaint,
       [assignedDepartment |-> mapping.department,
        higherAuthority |-> mapping.higher_authority,
        departmentStatus |-> mapping.status,
        isDefaultMapping |-> mapping.isDefault,
        mappingCriteria |-> mapping.matchedCriteria,
        formattedCreatedAt |-> ToLocaleDateString(createdAt, "long"),
        processingStatus |-> ProcessingStatus(complaint.status, mapping.isDefault),
        slaDeadline |-> [iso |-> createdAt.hours + SlaHours(complaint.priority)],
        daysSinceCreated |-> DaysSince(clock, createdAt)])

\* a catch block that keeps the processing status of the stored complaint
MinimalEnrichmentKeepingStatus(complaint, clock) ==
  LET createdAt == ToDate(complaint.createdAt)
  IN Merge(complaint,
       [assignedDepartment |-> "General Grievances",
        higherAuthority |-> "Municipal Commissioner / Executive Officer - General Grievances",
        departmentStatus |-> "active",
        isDefaultMapping |-> TRUE,
        formattedCreatedAt |-> ToLocaleDateString(createdAt, "short"),
        processingStatus |-> ProcessingStatus(complaint.status, FALSE),
        daysSinceCreated |-> DaysSince(clock, createdAt)])

\* enrichComplaintWithDepartment: the object its catch block returns
MinimalEnrichment(complaint, clock) ==
  LET createdAt == ToDate(complaint.createdAt)
  IN Merge(complaint,
       [assignedDepartment |-> "General Grievances",
        higherAuthority |-> "Municipal Commissioner / Executive Officer - General Grievances",
        departmentStatus |-> "active",
        isDefaultMapping |-> TRUE,
        formattedCreatedAt |-> ToLocaleDateString(createdAt, "short"),
        processingStatus |-> "pending",
        daysSinceCreated |-> DaysSince(clock, createdAt)])

\* enrichComplaintWithDepartment under a store fault: the try block throws
\* when the resolver rejects or when slaDeadline.toISOString() is called on an
\* invalid date; the catch block calls nothing that throws
enrichComplaintWithDepartment(complaint, tbl, fault, clock) ==
  LET lookup == mapComplaintToDepartment(tbl,
                  [category |-> complaint.category, city |-> complaint.city], fault)
      createdAt == ToDate(complaint.createdAt)
  IN IF lookup.pc = "done" /\ createdAt.valid
     THEN [pc |-> "done", failed |-> FALSE,
           value |-> EnrichedRecord(complaint, lookup.result, clock)]
     ELSE [pc |-> "done", failed |-> TRUE,
           value |-> MinimalEnrichment(complaint, clock)]

\* one promise of the array handed to Promise.all
Pending(complaint) ==
  [state |-> "pending", pc |-> "running", failed |-> FALSE, answered |-> TRUE,
   value |-> complaint]

Settle(item, tbl, fault, clock) ==
  LET out == enrichComplaintWithDepartment(item.value, tbl, fault, clock)
  IN [state |-> "settled", pc |-> out.pc, failed |-> out.failed,
      answered |-> (FailedAt(tbl, item.value, fault) = "none"),
      value |-> out.value]

\* Promise.all resolves as soon as one promise has settled
AnySettled(items) ==
  items = <<>> \/ \E i \in 1..Len(items) : items[i].state = "settled"

\* Promise.all resolves once every promise has settled
AllSettled(items) == \A i \in 1..Len(items) : items[i].state = "settled"

AnyRejected(items) == \E i \in 1..Len(items) : items[i].pc = "thrown"

AllAnswered(items) == \A i \in 1..Len(items) : items[i].answered

Values(items) == [i \in 1..Len(items) |-> items[i].value]

\* the characters of the strings whose content the code inspects
Chars(s) ==
  CASE s = "" -> <<>>
    [] s = "lamp broken" -> <<"l", "a", "m", "p", " ", "b", "r", "o", "k", "e", "n">>
    [] s = "Emergency near school" -> <<"E", "m", "e", "r", "g", "e", "n", "c", "y", " ", "n", "e", "a", "r", " ", "s", "c", "h", "o", "o", "l">>
    [] s = "urgent" -> <<"u", "r", "g", "e", "n", "t">>
    [] s = "emergency" -> <<"e", "m", "e", "r", "g", "e", "n", "c", "y">>
    [] s = "danger" -> <<"d", "a", "n", "g", "e", "r">>
    [] s = "immediate" -> <<"i", "m", "m", "e", "d", "i", "a", "t", "e">>
    [] s = "critical" -> <<"c", "r", "i", "t", "i", "c", "a", "l">>
    [] s = "Water Department" -> <<"W", "a", "t", "e", "r", " ", "D", "e", "p", "a", "r", "t", "m", "e", "n", "t">>
    [] s = "Electricity Department" -> <<"E", "l", "e", "c", "t", "r", "i", "c", "i", "t", "y", " ", "D", "e", "p", "a", "r", "t", "m", "e", "n", "t">>
    [] s = "Emergency Services" -> <<"E", "m", "e", "r", "g", "e", "n", "c", "y", " ", "S", "e", "r", "v", "i", "c", "e", "s">>
    [] s = "Water" -> <<"W", "a", "t", "e", "r">>
    [] s = "Electricity" -> <<"E", "l", "e", "c", "t", "r", "i", "c", "i", "t", "y">>
    [] s = "Roads Department" -> <<"R", "o", "a", "d", "s", " ", "D", "e", "p", "a", "r", "t", "m", "e", "n", "t">>
    [] s = "Water Supply Board" -> <<"W", "a", "t", "e", "r", " ", "S", "u", "p", "p", "l", "y", " ", "B", "o", "a", "r", "d">>
    [] s = "Other Department" -> <<"O", "t", "h", "e", "r", " ", "D", "e", "p", "a", "r", "t", "m", "e", "n", "t">>
    [] s = "General Grievances" -> <<"G", "e", "n", "e", "r", "a", "l", " ", "G", "r", "i", "e", "v", "a", "n", "c", "e", "s">>
    [] s = "X" -> <<"X">>
    [] s = "Y" -> <<"Y">>
    [] s = "roads" -> <<"r", "o", "a", "d", "s">>

\* toLowerCase on one character
LowerChar(c) ==
  CASE c = "A" -> "a"
    [] c = "B" -> "b"
    [] c = "C" -> "c"
    [] c = "D" -> "d"
    [] c = "E" -> "e"
    [] c = "F" -> "f"
    [] c = "G" -> "g"
    [] c = "H" -> "h"
    [] c = "I" -> "i"
    [] c = "J" -> "j"
    [] c = "K" -> "k"
    [] c = "L" -> "l"
    [] c = "M" -> "m"
    [] c = "N" -> "n"
    [] c = "O" -> "o"
    [] c = "P" -> "p"
    [] c = "Q" -> "q"
    [] c = "R" -> "r"
    [] c = "S" -> "s"
    [] c = "T" -> "t"
    [] c = "U" -> "u"
    [] c = "V" -> "v"
    [] c = "W" -> "w"
    [] c = "X" -> "x"
    [] c = "Y" -> "y"
    [] c = "Z" -> "z"
    [] OTHER -> c

\* String.prototype.toLowerCase on the characters of a string
LowerChars(cs) == [k \in 1..Len(cs) |-> LowerChar(cs[k])]

\* a.includes(b) on character sequences
CharsInclude(a, b) ==
  \E k \in 0..(Len(a) - Len(b)) : SubSeq(a, k + 1, k + Len(b)) = b

\* String.prototype.includes
StringIncludes(s, t) == CharsInclude(Chars(s), Chars(t))

\* c.field === wanted: false when the object has no such property
StrictEquals(c, field, wanted) == Has(c, field) /\ c[field] = wanted

\* c.assignedDepartment.toLowerCase() on a record whose department is
\* undefined is a TypeError
FilterThrows(list, filters) ==
  /\ Has(filters, "assignedDepartment")
  /\ \E k \in 1..Len(list) : list[k].assignedDepartment = Absent

\* c.assignedDepartment.toLowerCase().includes(wanted.toLowerCase())
DepartmentIncludes(c, wanted) ==
  CharsInclude(LowerChars(Chars(c.assignedDepartment)), LowerChars(Chars(wanted)))

\* the filters on enriched data
ApplyFilters(list, filters) ==
  LET keep(c) ==
        /\ Has(filters, "assignedDepartment") =>
             DepartmentIncludes(c, filters.assignedDepartment)
        /\ Has(filters, "processingStatus") =>
             StrictEquals(c, "processingStatus", filters.processingStatus)
        /\ Has(filters, "isDefaultMapping") =>
             StrictEquals(c, "isDefaultMapping", filters.isDefaultMapping)
  IN SelectSeq(list, keep)

\* listenToEnrichedComplaints(callback, options): onSnapshot registers the
\* handlers; the first snapshot is due
Subscribe(options) ==
  /\ ~listener.active
  /\ listener' = [active |-> TRUE, fresh |-> TRUE, unsubscribed |-> FALSE,
                  options |-> options]
  /\ UNCHANGED <<moreVars, civic_issues, call, prev, batch, complaints, now, handler,
                 delivered, fetch, fetched>>

\* the snapshot handler starts: it builds the raw complaints and starts one
\* enrichment per complaint; the model follows one handler at a time
SnapshotArrives ==
  /\ listener.active
  /\ listener.fresh
  /\ handler.pc = "idle"
  /\ LET snapshot == ComplaintsQuery(complaints, listener.options)
     IN handler' = [pc |-> "enriching",
                    items |-> [i \in 1..Len(snapshot) |->
                                 Pending(ListenedComplaint(snapshot[i]))],
                    options |-> listener.options]
  /\ listener' = [listener EXCEPT !.fresh = FALSE]
  /\ UNCHANGED <<moreVars, civic_issues, call, prev, batch, complaints, now, delivered,
                 fetch, fetched>>

\* one enrichment of the handler settles
ListenEnrichSettles(i, fault) ==
  /\ handler.pc = "enriching"
  /\ i \in 1..Len(handler.items)
  /\ handler.items[i].state = "pending"
  /\ handler' = [handler EXCEPT
                   !.items[i] = Settle(@, civic_issues["adminDb"], fault, now)]
  /\ UNCHANGED <<moreVars, civic_issues, call, prev, batch, complaints, now, listener,
                 delivered, fetch, fetched>>

\* a catch block of the snapshot handler that logs and throws again
CatchBlockOfHandlerRethrows ==
  [has |-> FALSE, list |-> <<>>, event |-> "exception", calls |-> 0, threw |-> TRUE]

\* the catch block of the snapshot handler: callback([])
CatchBlockOfHandler ==
  [has |-> TRUE, list |-> <<>>, event |-> "exception", calls |-> 1, threw |-> FALSE]

\* Promise.all settles: the handler filters and invokes the callback, or
\* invokes it with [] from its catch block; an unsubscribed listener does not
\* stop a handler that is already running
HandlerCompletes ==
  /\ handler.pc = "enriching"
  /\ AllSettled(handler.items)
  /\ delivered' =
       IF \/ AnyRejected(handler.items)
          \/ FilterThrows(Values(handler.items), handler.options.filters)
       THEN Merge(CatchBlockOfHandler, [answered |-> AllAnswered(handler.items)])
       ELSE [has |-> TRUE,
             list |-> ApplyFilters(Values(handler.items), handler.options.filters),
             answered |-> AllAnswered(handler.items),
             event |-> "snapshot", calls |-> 1, threw |-> FALSE]
  /\ handler' = IdleHandler
  /\ UNCHANGED <<moreVars, civic_issues, call, prev, batch, complaints, now, listener,
                 fetch, fetched>>

\* the stream fails: the error handler invokes the callback with [] and the
\* listener receives nothing more
ListenerError ==
  /\ listener.active
  /\ delivered' = [has |-> TRUE, list |-> <<>>, answered |-> TRUE,
                    event |-> "error", calls |-> 1, threw |-> FALSE]
  /\ listener' = IdleListener
  /\ UNCHANGED <<moreVars, civic_issues, call, prev, batch, complaints, now, handler,
                 fetch, fetched>>

\* the caller invokes the returned unsubscribe function
Unsubscribe ==
  /\ listener.active
  /\ listener' = [IdleListener EXCEPT !.unsubscribed = TRUE]
  /\ UNCHANGED <<moreVars, civic_issues, call, prev, batch, complaints, now, handler,
                 delivered, fetch, fetched>>

\* fetchEnrichedComplaints(options) awaits fetchUserComplaints
FetchStart(options) ==
  /\ fetch.pc = "idle"
  /\ fetch' = [pc |-> "reading", items |-> <<>>, options |-> options]
  /\ UNCHANGED <<moreVars, civic_issues, call, prev, batch, complaints, now, listener,
                 handler, delivered, fetched>>

\* getDocs resolves: the raw complaints are built and one enrichment per
\* complaint starts
FetchRead ==
  /\ fetch.pc = "reading"
  /\ LET snapshot == ComplaintsQuery(complaints, fetch.options)
     IN fetch' = [fetch EXCEPT
                    !.pc = "enriching",
                    !.items = [i \in 1..Len(snapshot) |->
                                 Pending(FetchedComplaint(snapshot[i]))]]
  /\ UNCHANGED <<moreVars, civic_issues, call, prev, batch, complaints, now, listener,
                 handler, delivered, fetched>>

\* getDocs rejects: fetchUserComplaints throws and fetchEnrichedComplaints
\* rethrows
FetchReadFails ==
  /\ fetch.pc = "reading"
  /\ fetched' = [has |-> TRUE, threw |-> TRUE, list |-> <<>>, answered |-> TRUE]
  /\ fetch' = IdleFetch
  /\ UNCHANGED <<moreVars, civic_issues, call, prev, batch, complaints, now, listener,
                 handler, delivered>>

\* one enrichment of the fetch settles
FetchEnrichSettles(i, fault) ==
  /\ fetch.pc = "enriching"
  /\ i \in 1..Len(fetch.items)
  /\ fetch.items[i].state = "pending"
  /\ fetch' = [fetch EXCEPT
                 !.items[i] = Settle(@, civic_issues["adminDb"], fault, now)]
  /\ UNCHANGED <<moreVars, civic_issues, call, prev, batch, complaints, now, listener,
                 handler, delivered, fetched>>

\* Promise.all settles: fetchEnrichedComplaints filters and returns, or throws
FetchReturns ==
  /\ fetch.pc = "enriching"
  /\ AllSettled(fetch.items)
  /\ fetched' =
       IF AnyRejected(fetch.items)
       THEN [has |-> TRUE, threw |-> TRUE, list |-> <<>>,
             answered |-> AllAnswered(fetch.items)]
       ELSE [has |-> TRUE, threw |-> FALSE,
             list |-> ApplyFilters(Values(fetch.items), fetch.options.filters),
             answered |-> AllAnswered(fetch.items)]
  /\ fetch' = IdleFetch
  /\ UNCHANGED <<moreVars, civic_issues, call, prev, batch, complaints, now, listener,
                 handler, delivered>>

\* the mapping table is one of the samples, the complaints collection holds
\* any documents, and nothing is being read
InitReads ==
  /\ civic_issues \in [Stores -> SampleTables]
  /\ civic_issues["userDb"] = <<>>
  /\ call = IdleCall
  /\ prev = NoPrev
  /\ batch = IdleBatch
  /\ complaints \in Collections
  /\ now = ClockStart
  /\ listener = IdleListener
  /\ handler = IdleHandler
  /\ delivered = NothingDelivered
  /\ fetch = IdleFetch
  /\ fetched = NothingFetched
  /\ MoreIdle

NextListen ==
  \/ \E options \in Options : Subscribe(options)
  \/ SnapshotArrives
  \/ \E i \in 1..Len(handler.items), fault \in StoreFaults : ListenEnrichSettles(i, fault)
  \/ HandlerCompletes
  \/ ListenerError
  \/ Unsubscribe

\* the streaming read path alone
SpecListen == InitReads /\ [][NextListen]_vars

NextReads ==
  \/ NextListen
  \/ \E options \in Options : FetchStart(options)
  \/ FetchRead
  \/ FetchReadFails
  \/ \E i \in 1..Len(fetch.items), fault \in StoreFaults : FetchEnrichSettles(i, fault)
  \/ FetchReturns

\* at most one complaint is stored
InitOneComplaint ==
  /\ InitReads
  /\ Cardinality(complaints) <= 1

\* the one-shot and the streaming read of one stored complaint, side by side
SpecReads == InitOneComplaint /\ [][NextReads]_vars

(***************************************************************************)
(* SLA tracking hook: useSLATracking, NotificationContext                  *)
(***************************************************************************)
\* new Date(issue.slaDeadline)
ParseDate(s) == s.iso

\* checkSLA: now > deadline && issue.status !== 'Resolved'
IsBreached(issue, clock) ==
  clock > ParseDate(issue.slaDeadline) /\ issue.status # "Resolved"

\* Array.prototype.includes
Includes(list, x) == \E k \in 1..Len(list) : list[k] = x

\* addNotification: setNotifications(prev => [newNotification, ...prev])
AddNotification(list, type, issue) == <<[type |-> type, issue |-> issue.id]>> \o list

\* checkSLA: the notifications added for one newly breached issue
NotifyBreach(list, issue) ==
  LET breach == AddNotification(list, "sla_breach", issue)
  IN IF issue.status # "Escalated"
     THEN AddNotification(breach, "escalation", issue)
     ELSE breach

\* checkSLA: issues.forEach, from issue k on
RECURSIVE ForEachIssue(_, _, _, _, _)
ForEachIssue(iss, known, clock, k, acc) ==
  IF k > Len(iss) THEN acc
  ELSE IF IsBreached(iss[k], clock) /\ ~Includes(known, iss[k].id)
       THEN ForEachIssue(iss, known, clock, k + 1,
              [breachedIssues |-> Append(acc.breachedIssues, iss[k].id),
               notifications |-> NotifyBreach(acc.notifications, iss[k])])
       ELSE ForEachIssue(iss, known, clock, k + 1, acc)

\* checkSLA with the slaBreachedIssues its closure holds
CheckSLA(iss, known, list, clock) ==
  LET done == ForEachIssue(iss, known, clock, 1,
                [breachedIssues |-> <<>>, notifications |-> list])
  IN [slaBreachedIssues |-> known \o done.breachedIssues,
      notifications |-> done.notifications]

\* checkSLA, then the initial check of the effect that React runs again
\* once the state set by the first check is committed
RunEffect(iss, known, list, clock) ==
  LET first == CheckSLA(iss, known, list, clock)
  IN CheckSLA(iss, first.slaBreachedIssues, first.notifications, clock)

\* the number of sla_breach notifications about an issue
BreachSignals(list, id) ==
  Cardinality({k \in 1..Len(list) :
                 list[k].type = "sla_breach" /\ list[k].issue = id})

\* the signals of the breach episode each issue is in: none while the issue
\* is not breached
EpisodeSignals(iss, clock, old, before, after) ==
  [id \in {iss[k].id : k \in 1..Len(iss)} |->
     LET issue == iss[CHOOSE k \in 1..Len(iss) : iss[k].id = id]
         earlier == IF id \in DOMAIN old THEN old[id] ELSE 0
     IN IF IsBreached(issue, clock)
        THEN earlier + BreachSignals(after, id) - BreachSignals(before, id)
        ELSE 0]

\* the component mounts with its issues: the effect runs its initial check
InitSLA ==
  /\ civic_issues = [s \in Stores |-> <<>>]
  /\ call = IdleCall
  /\ prev = NoPrev
  /\ batch = IdleBatch
  /\ ReadsIdle
  /\ PipeIdle
  /\ MonitorIdle
  /\ UserIdle
  /\ OtherIdle
  /\ issues \in IssueLists
  /\ LET mounted == RunEffect(issues, <<>>, <<>>, ClockStart)
     IN /\ slaBreachedIssues = mounted.slaBreachedIssues
        /\ notifications = mounted.notifications
        /\ signalled = EpisodeSignals(issues, ClockStart, NoSignals, <<>>,
                                      mounted.notifications)

\* a minute passes and the interval calls checkSLA
IntervalFires ==
  /\ issues # <<>>
  /\ now < ClockStart + MaxTicks
  /\ now' = now + 1
  /\ LET ran == RunEffect(issues, slaBreachedIssues, notifications, now')
     IN /\ slaBreachedIssues' = ran.slaBreachedIssues
        /\ notifications' = ran.notifications
        /\ signalled' = EpisodeSignals(issues, now', signalled, notifications,
                                       ran.notifications)
  /\ UNCHANGED <<issues, civic_issues, call, prev, batch, complaints, listener,
                 handler, delivered, fetch, fetched, pipeVars, monitorVars,
                 userVars, otherVars>>

\* the component is rendered with an issue whose status has changed: the
\* effect depends on issues and runs again
IssueUpdated(k, status) ==
  /\ k \in 1..Len(issues)
  /\ issues[k].status # status
  /\ issues' = [issues EXCEPT ![k].status = status]
  /\ LET ran == RunEffect(issues', slaBreachedIssues, notifications, now)
     IN /\ slaBreachedIssues' = ran.slaBreachedIssues
        /\ notifications' = ran.notifications
        /\ signalled' = EpisodeSignals(issues', now, signalled, notifications,
                                       ran.notifications)
  /\ UNCHANGED <<now, civic_issues, call, prev, batch, complaints, listener,
                 handler, delivered, fetch, fetched, pipeVars, monitorVars,
                 userVars, otherVars>>

NextSLA ==
  \/ IntervalFires
  \/ \E k \in 1..MaxIssues, status \in IssueStatuses : IssueUpdated(k, status)

\* one mounted component that uses useSLATracking
SpecSLA == InitSLA /\ [][NextSLA]_vars

(***************************************************************************)
(* Pipeline functions: enrichedComplaintService.ts, useSLATracking         *)
(***************************************************************************)
\* mapComplaintToDepartmentFrontend as a function of the table, the complaint
\* and the query at which the store fails
mapComplaintToDepartmentFrontend(tbl, c, fault) ==
  IF InvalidQuery(c) \/ fault = "q1"
  THEN CatchBlockFrontend(c)
  ELSE LET snapshot == ExactQuery(tbl, c)
       IN IF snapshot # <<>>
          THEN [pc |-> "done", result |-> ExactMatchResultFrontend(snapshot[1], c)]
          ELSE IF fault = "q2"
               THEN CatchBlockFrontend(c)
               ELSE LET categorySnapshot == CategoryQuery(tbl, c)
                    IN IF categorySnapshot # <<>>
                       THEN [pc |-> "done",
                             result |-> CategoryMatchResultFrontend(categorySnapshot[1], c)]
                       ELSE [pc |-> "done", result |-> DefaultResultFrontend(c)]

EmergencyKeywords == {"urgent", "emergency", "danger", "immediate", "critical"}

\* determinePriority
determinePriority(category, description) ==
  LET hasEmergencyKeyword ==
        \E keyword \in EmergencyKeywords :
          CharsInclude(LowerChars(Chars(description)), Chars(keyword))
  IN IF hasEmergencyKeyword \/ category \in {"Water Leakage", "Streetlight", "Emergency"}
     THEN "High"
     ELSE IF category \in {"Pothole", "Garbage Collection"} THEN "Medium"
     ELSE "Low"

UrgentDepartments == {"Water Department", "Electricity Department", "Emergency Services"}

\* calculateSLADeadline: the hours added to new Date()
HoursToAdd(department, priority) ==
  LET byPriority == CASE priority = "High" -> 24
                      [] priority = "Medium" -> 48
                      [] OTHER -> 72
  IN IF \E dept \in UrgentDepartments : StringIncludes(department, dept)
     THEN IF byPriority - 12 > 12 THEN byPriority - 12 ELSE 12
     ELSE byPriority

\* calculateSLADeadline, called at the given time
calculateSLADeadline(department, priority, clock) ==
  Ts(clock + HoursToAdd(department, priority))

\* complaint.imageAnalysis?.field
Detected(complaint, field) ==
  IF Has(complaint, "imageAnalysis") /\ complaint.imageAnalysis.kind = "map"
  THEN Str(complaint.imageAnalysis, field)
  ELSE Absent

\* processIncomingComplaint: the ProcessedComplaint its try block builds; the
\* complaints of the model carry a complaintId
processIncomingComplaint(complaint, tbl, fault, clock) ==
  LET effectiveCity == OrElse(Detected(complaint, "detectedCity"), complaint.city)
      effectiveCategory ==
        OrElse(Detected(complaint, "detectedCategory"), complaint.category)
      lookup == mapComplaintToDepartmentFrontend(tbl,
                  [category |-> effectiveCategory, city |-> effectiveCity], fault)
      departmentMapping == lookup.result
      priority == determinePriority(effectiveCategory, complaint.description)
  IN IF lookup.pc # "done" \/ departmentMapping.department = Absent
     THEN [pc |-> "thrown", value |-> complaint]
     ELSE [pc |-> "done",
           value |-> Merge(complaint,
             [complaintId |-> complaint.complaintId,
              category |-> effectiveCategory,
              city |-> effectiveCity,
              department |-> departmentMapping.department,
              higher_authority |-> departmentMapping.higher_authority,
              status |-> "Open",
              priority |-> priority,
              slaDeadline |-> calculateSLADeadline(departmentMapping.department,
                                                   priority, clock),
              departmentMapping |-> departmentMapping,
              processedAt |-> Ts(clock),
              createdAt |-> IF complaint.createdAt.kind = "undefined"
                            THEN Ts(clock) ELSE complaint.createdAt,
              notifications |-> <<>>])]

\* a breach test that forgets the processing status
SlaBreachedWhateverStatus(c, clock) ==
  /\ Has(c, "slaDeadline")
  /\ ParseDate(c.slaDeadline) < clock

\* complaint.slaDeadline && new Date(complaint.slaDeadline) < now &&
\* complaint.processingStatus !== 'resolved'
SlaBreached(c, clock) ==
  /\ Has(c, "slaDeadline")
  /\ ParseDate(c.slaDeadline) < clock
  /\ c.processingStatus # "resolved"

\* getEnrichedComplaintStats: the counters of the model
EnrichedComplaintStats(list, clock) ==
  [total |-> Len(list),
   defaultMappings |-> Cardinality({k \in 1..Len(list) : list[k].isDefaultMapping}),
   slaBreaches |-> Cardinality({k \in 1..Len(list) : SlaBreached(list[k], clock)})]

\* daysSinceCreated > 7, false for NaN
MoreThanAWeek(days) == ~days.nan /\ days.n > 7

\* getComplaintsNeedingAttention: the four queues
ComplaintsNeedingAttention(list, clock) ==
  [slaBreaches |-> SelectSeq(list, LAMBDA c : SlaBreached(c, clock)),
   defaultMappings |-> SelectSeq(list, LAMBDA c : c.isDefaultMapping),
   highPriorityPending |->
     SelectSeq(list, LAMBDA c : c.priority = "High" /\ c.processingStatus = "pending"),
   longPending |->
     SelectSeq(list, LAMBDA c : MoreThanAWeek(c.daysSinceCreated)
                                  /\ c.processingStatus = "pending")]

\* getSLAStatus
getSLAStatus(issue, clock) ==
  LET deadline == ParseDate(issue.slaDeadline)
      hoursUntilDeadline == deadline - clock
  IN IF clock > deadline /\ issue.status # "Resolved"
     THEN [status |-> "breached", hoursLeft |-> 0, color |-> "red"]
     ELSE IF hoursUntilDeadline < 24
          THEN [status |-> "warning", hoursLeft |-> hoursUntilDeadline, color |-> "yellow"]
          ELSE [status |-> "good", hoursLeft |-> hoursUntilDeadline, color |-> "green"]

\* the enriched list a one-shot read returns when the store holds the one
\* complaint of the call
EnrichedListOf(complaint, tbl, fault, clock) ==
  <<enrichComplaintWithDepartment(complaint, tbl, fault, clock).value>>

\* enrichComplaintWithDepartment(complaint)
\* an enrichment whose second call meets a table that lost its first row
EnrichOneAfterRowRemoved(fault) ==
  /\ input.kind = "complaint"
  /\ LET tbl == civic_issues["adminDb"]
         seen == IF output.kind = "enriched" /\ tbl # <<>> THEN Tail(tbl) ELSE tbl
         out == enrichComplaintWithDepartment(input.value, seen, fault, now)
     IN output' = [kind |-> "enriched", failed |-> out.failed, value |-> out.value,
                   fault |-> fault,
                   again |-> output.kind = "enriched" /\ output.fault = fault]
  /\ UNCHANGED <<civic_issues, now, input, notPipeVars>>

\* enrichComplaintWithDepartment(complaint); the output keeps the responses of
\* the store the call met and whether the call before it was the same call
EnrichOne(fault) ==
  /\ input.kind = "complaint"
  /\ LET out == enrichComplaintWithDepartment(input.value, civic_issues["adminDb"],
                                              fault, now)
     IN output' = [kind |-> "enriched", failed |-> out.failed, value |-> out.value,
                   fault |-> fault,
                   again |-> output.kind = "enriched" /\ output.fault = fault]
  /\ UNCHANGED <<civic_issues, now, input, notPipeVars>>

\* processIncomingComplaint(complaint)
ProcessOne(fault) ==
  /\ input.kind = "complaint"
  /\ LET out == processIncomingComplaint(input.value, civic_issues["userDb"],
                                         fault, now)
     IN output' = [kind |-> IF out.pc = "done" THEN "processed" ELSE "thrown",
                   value |-> out.value]
  /\ UNCHANGED <<civic_issues, now, input, notPipeVars>>

\* getEnrichedComplaintStats() over a store that holds the complaint
GetEnrichedComplaintStats(fault) ==
  /\ input.kind = "complaint"
  /\ LET list == EnrichedListOf(input.value, civic_issues["adminDb"], fault, now)
     IN output' = [kind |-> "stats", list |-> list,
                   value |-> EnrichedComplaintStats(list, now)]
  /\ UNCHANGED <<civic_issues, now, input, notPipeVars>>

\* getComplaintsNeedingAttention() over a store that holds the complaint
GetComplaintsNeedingAttention(fault) ==
  /\ input.kind = "complaint"
  /\ LET list == EnrichedListOf(input.value, civic_issues["adminDb"], fault, now)
     IN output' = [kind |-> "attention", list |-> list,
                   value |-> ComplaintsNeedingAttention(list, now)]
  /\ UNCHANGED <<civic_issues, now, input, notPipeVars>>

\* the read under getEnrichedComplaintStats or getComplaintsNeedingAttention
\* fails and the function rethrows
ReadUnderneathFails ==
  /\ input.kind = "complaint"
  /\ output' = [kind |-> "thrown", value |-> input.value]
  /\ UNCHANGED <<civic_issues, now, input, notPipeVars>>

\* getSLAStatus(issue)
GetSLAStatus ==
  /\ input.kind = "issue"
  /\ output' = [kind |-> "slaStatus", value |-> getSLAStatus(input.value, now)]
  /\ UNCHANGED <<civic_issues, now, input, notPipeVars>>

\* one complaint or one issue, one mapping table in both stores, one time
InitPipeline ==
  /\ \E tbl \in PipelineTables : civic_issues = [s \in Stores |-> tbl]
  /\ call = IdleCall
  /\ prev = NoPrev
  /\ batch = IdleBatch
  /\ complaints = {}
  /\ now \in PipelineClocks
  /\ listener = IdleListener
  /\ handler = IdleHandler
  /\ delivered = NothingDelivered
  /\ fetch = IdleFetch
  /\ fetched = NothingFetched
  /\ HookIdle
  /\ MonitorIdle
  /\ UserIdle
  /\ OtherIdle
  /\ input \in PipelineInputs
  /\ output = NoOutput

NextPipeline ==
  \/ \E fault \in StoreFaults : EnrichOne(fault)
  \/ \E fault \in StoreFaults : ProcessOne(fault)
  \/ \E fault \in StoreFaults : GetEnrichedComplaintStats(fault)
  \/ \E fault \in StoreFaults : GetComplaintsNeedingAttention(fault)
  \/ ReadUnderneathFails
  \/ GetSLAStatus

\* the pipeline functions applied to one input
SpecPipeline == InitPipeline /\ [][NextPipeline]_vars

(***************************************************************************)
(* The two streaming read paths under failures: listenToUserComplaints,    *)
(* listenToEnrichedComplaints                                              *)
(***************************************************************************)
\* listenToUserComplaints: the UserComplaint its snapshot handler builds
ListenedUserComplaint(doc) ==
  LET data == doc.data
      address == OrElse(LocationStr(data, "address"), Str(data, "address"))
  IN [complaintId |-> OrElse(Str(data, "complaintId"), doc.id),
      category |-> OrElse(Str(data, "category"), "Unknown"),
      city |-> OrElse(LocationStr(data, "city"),
                OrElse(Str(data, "city"),
                  OrElse(ExtractCityFromAddress(address),
                    OrElse(Str(data, "ward"), "Unknown")))),
      createdAt |-> IF Has(data, "createdAt") THEN data.createdAt
                    ELSE IF Has(data, "timeline") /\ Has(data.timeline, "created")
                         THEN data.timeline.created
                         ELSE Undefined,
      status |-> OrElse(Str(data, "status"), "Open"),
      priority |-> OrElse(Str(data, "priority"), "Medium")]

\* listenToUserComplaints(callback): onSnapshot registers the handlers; the
\* first snapshot is due
SubscribeUser ==
  /\ ~userListener.active
  /\ userListener' = [active |-> TRUE, fresh |-> TRUE]
  /\ UNCHANGED <<civic_issues, call, prev, batch, readVars, hookVars, pipeVars,
                 monitorVars, otherVars, userDelivered>>

\* a snapshot arrives: the handler builds the complaints and invokes the
\* callback before it returns
UserSnapshotArrives ==
  /\ userListener.active
  /\ userListener.fresh
  /\ LET snapshot == ComplaintsQuery(complaints, DefaultOptions)
     IN userDelivered' =
          [has |-> TRUE,
           list |-> [i \in 1..Len(snapshot) |-> ListenedUserComplaint(snapshot[i])],
           event |-> "snapshot", calls |-> 1, threw |-> FALSE]
  /\ userListener' = [userListener EXCEPT !.fresh = FALSE]
  /\ UNCHANGED <<civic_issues, call, prev, batch, readVars, hookVars, pipeVars,
                 monitorVars, otherVars>>

\* the stream fails: the error handler invokes the callback with [] and the
\* listener receives nothing more
UserListenerError ==
  /\ userListener.active
  /\ userDelivered' = [has |-> TRUE, list |-> <<>>, event |-> "error",
                        calls |-> 1, threw |-> FALSE]
  /\ userListener' = IdleUserListener
  /\ UNCHANGED <<civic_issues, call, prev, batch, readVars, hookVars, pipeVars,
                 monitorVars, otherVars>>

\* the caller invokes the returned unsubscribe function
UnsubscribeUser ==
  /\ userListener.active
  /\ userListener' = IdleUserListener
  /\ UNCHANGED <<civic_issues, call, prev, batch, readVars, hookVars, pipeVars,
                 monitorVars, otherVars, userDelivered>>

\* the options of the subscribers: the defaults, and a filter on the name of
\* the assigned department
StreamOptions ==
  { DefaultOptions,
    [orderByField |-> Absent, filters |-> [assignedDepartment |-> "roads"]] }

\* mapping tables: a row for the complaints of Delhi, and that row without
\* its department field
StreamTables ==
  LET row(department) ==
        [category |-> "Pothole", city |-> "Delhi", department |-> department,
         higher_authority |-> "Head", status |-> ""]
  IN { <<row("Roads Department")>>, <<row(Absent)>> }

InitStreams ==
  /\ \E tbl \in StreamTables : civic_issues = [s \in Stores |-> tbl]
  /\ call = IdleCall
  /\ prev = NoPrev
  /\ batch = IdleBatch
  /\ complaints \in Collections
  /\ now = ClockStart
  /\ listener = IdleListener
  /\ handler = IdleHandler
  /\ delivered = NothingDelivered
  /\ fetch = IdleFetch
  /\ fetched = NothingFetched
  /\ MoreIdle

NextStreams ==
  \/ \E options \in StreamOptions : Subscribe(options)
  \/ SnapshotArrives
  \/ \E i \in 1..Len(handler.items), fault \in StoreFaults : ListenEnrichSettles(i, fault)
  \/ HandlerCompletes
  \/ ListenerError
  \/ Unsubscribe
  \/ SubscribeUser
  \/ UserSnapshotArrives
  \/ UserListenerError
  \/ UnsubscribeUser

\* both listeners over one collection, with streams and filters that fail
SpecStreams == InitStreams /\ [][NextStreams]_vars

(***************************************************************************)
(* The two document shapes: fetchUserComplaints, listenToUserComplaints,   *)
(* fetchUserComplaintById                                                  *)
(***************************************************************************)
\* data.user?.field
UserStr(data, k) == IF Has(data, "user") THEN Str(data.user, k) ELSE Absent

\* a number field; a missing number and 0 are both falsy and the chains of
\* the coordinates end in 0
Num(d, k) == IF k \in DOMAIN d THEN d[k] ELSE 0

\* data.location?.coordinates?.field
CoordinateNum(data, k) ==
  IF Has(data, "location") /\ Has(data.location, "coordinates")
  THEN Num(data.location.coordinates, k)
  ELSE 0

\* a || b || 0 on numbers
NumOrElse(a, b) == IF a # 0 THEN a ELSE b

\* a mapping that reads the flat field before the nested one
ShapeFieldsFlatFirst(data) ==
  LET address == OrElse(LocationStr(data, "address"), Str(data, "address"))
  IN [pincode |-> OrElse(Str(data, "pincode"),
                    OrElse(LocationStr(data, "pincode"),
                      OrElse(ParsedPincode(address), "Unknown"))),
      userId |-> OrElse(Str(data, "userId"), OrElse(UserStr(data, "id"), "Unknown")),
      userName |-> OrElse(Str(data, "userName"),
                     OrElse(UserStr(data, "name"), "Anonymous")),
      userPhone |-> OrElse(Str(data, "userPhone"),
                      OrElse(UserStr(data, "phone"), "Not provided")),
      latitude |-> NumOrElse(Num(data, "latitude"),
                     NumOrElse(CoordinateNum(data, "lat"), 0)),
      longitude |-> NumOrElse(Num(data, "longitude"),
                      NumOrElse(CoordinateNum(data, "lng"), 0))]

\* the fields of the UserComplaint that the enrichment does not read; the
\* three mappings build them with the same expressions
ShapeFields(data) ==
  LET address == OrElse(LocationStr(data, "address"), Str(data, "address"))
  IN [pincode |-> OrElse(LocationStr(data, "pincode"),
                    OrElse(Str(data, "pincode"),
                      OrElse(ParsedPincode(address), "Unknown"))),
      userId |-> OrElse(UserStr(data, "id"), OrElse(Str(data, "userId"), "Unknown")),
      userName |-> OrElse(UserStr(data, "name"),
                     OrElse(Str(data, "userName"), "Anonymous")),
      userPhone |-> OrElse(UserStr(data, "phone"),
                      OrElse(Str(data, "userPhone"), "Not provided")),
      latitude |-> NumOrElse(CoordinateNum(data, "lat"),
                     NumOrElse(Num(data, "latitude"), 0)),
      longitude |-> NumOrElse(CoordinateNum(data, "lng"),
                      NumOrElse(Num(data, "longitude"), 0))]

\* the location map of a document of the mobile app
ShapeLocations ==
  { [city |-> "Delhi"],
    [city |-> "Delhi", pincode |-> "110001", address |-> "Mumbai",
     coordinates |-> [lat |-> 28, lng |-> 77]],
    [city |-> "", coordinates |-> [lat |-> 0, lng |-> 0]],
    [address |-> "Mumbai"] }

\* the flat fields of place of a legacy document
ShapeFlatPlaces ==
  { [city |-> "Pune"],
    [city |-> "Pune", pincode |-> "411001", latitude |-> 18, longitude |-> 73],
    [address |-> "400001"],
    [ward |-> "Ward 5"] }

ShapeUsers == { [id |-> "u1", name |-> "Asha", phone |-> "98"], [name |-> "Asha"] }

ShapeFlatUsers ==
  { [userId |-> "u2", userName |-> "Ravi", userPhone |-> "99"], [userPhone |-> "99"] }

NoFields == [x \in {} |-> ""]

\* the documents read: each part present or missing, createdAt among them
ShapeDocs ==
  { [id |-> "full",
     data |-> Merge(Merge(Merge(place, user), date),
                IF nested = NoFields THEN NoFields ELSE [location |-> nested])] :
      nested \in ShapeLocations \cup {NoFields},
      place \in ShapeFlatPlaces \cup {NoFields},
      user \in { Merge(flat, IF u = NoFields THEN NoFields ELSE [user |-> u]) :
                   flat \in ShapeFlatUsers \cup {NoFields},
                   u \in ShapeUsers \cup {NoFields} },
      date \in { NoFields, [createdAt |-> Ts(2)] } }

\* fetchUserComplaints(): every document of the query result becomes a
\* UserComplaint
FetchUserComplaints ==
  /\ LET snapshot == ComplaintsQuery(complaints, DefaultOptions)
     IN output' = [kind |-> "userComplaints", docs |-> snapshot,
                   list |-> [i \in 1..Len(snapshot) |->
                               Merge(FetchedComplaint(snapshot[i]),
                                     ShapeFields(snapshot[i].data))]]
  /\ UNCHANGED <<civic_issues, now, input, notPipeVars>>

\* listenToUserComplaints(callback): the list handed to the callback for one
\* snapshot
ListenToUserComplaints ==
  /\ LET snapshot == ComplaintsQuery(complaints, DefaultOptions)
     IN output' = [kind |-> "userSnapshot", docs |-> snapshot,
                   list |-> [i \in 1..Len(snapshot) |->
                               Merge(ListenedUserComplaint(snapshot[i]),
                                     ShapeFields(snapshot[i].data))]]
  /\ UNCHANGED <<civic_issues, now, input, notPipeVars>>

\* fetchUserComplaintById(complaintId): null when no document has the id
FetchUserComplaintById(complaintId) ==
  /\ LET found == { d \in complaints : d.id = complaintId }
     IN output' =
          IF found = {}
          THEN [kind |-> "userComplaint", docs |-> <<>>, list |-> <<>>]
          ELSE LET doc == CHOOSE d \in found : TRUE
               IN [kind |-> "userComplaint", docs |-> <<doc>>,
                   list |-> <<Merge(FetchedComplaint(doc), ShapeFields(doc.data))>>]
  /\ UNCHANGED <<civic_issues, now, input, notPipeVars>>

\* getDocs or getDoc rejects: both fetches rethrow
UserReadFails ==
  /\ output' = [kind |-> "readFailed", docs |-> <<>>, list |-> <<>>]
  /\ UNCHANGED <<civic_issues, now, input, notPipeVars>>

\* one stored document of either shape, or of both
InitShapes ==
  /\ civic_issues = [s \in Stores |-> <<>>]
  /\ call = IdleCall
  /\ prev = NoPrev
  /\ batch = IdleBatch
  /\ \E doc \in ShapeDocs : complaints = {doc}
  /\ now = ClockStart
  /\ listener = IdleListener
  /\ handler = IdleHandler
  /\ delivered = NothingDelivered
  /\ fetch = IdleFetch
  /\ fetched = NothingFetched
  /\ MoreIdle

NextShapes ==
  \/ FetchUserComplaints
  \/ ListenToUserComplaints
  \/ \E complaintId \in {"full", "flat"} : FetchUserComplaintById(complaintId)
  \/ UserReadFails

\* the three reads of userComplaintsService.ts over one document
SpecShapes == InitShapes /\ [][NextShapes]_vars

(***************************************************************************)
(* Saving processed complaints: saveProcessedComplaint,                    *)
(* processBatchComplaints                                                  *)
(***************************************************************************)
\* data.imageAnalysis of a document that has none
NoAnalysis == [kind |-> "undefined"]

\* a document with every field the monitor copies
FullDoc ==
  [id |-> "full",
   data |-> [category |-> "Pothole", city |-> "Delhi", description |-> "lamp broken",
             address |-> "12 Main Road", ward |-> "Ward 5", createdAt |-> Ts(2),
             imageAnalysis |-> [kind |-> "map", detectedCategory |-> "Streetlight"]]]

FullDoc2 ==
  [id |-> "full2",
   data |-> [category |-> "Garbage", city |-> "Mumbai",
             description |-> "Emergency near school",
             address |-> "4 Lake Road", ward |-> "Ward 9", createdAt |-> Ts(3),
             imageAnalysis |-> [kind |-> "map"]]]

\* the documents the monitor meets: complete ones, a legacy one without
\* address, ward and imageAnalysis, and one without createdAt
MonitorDocs == {FullDoc, FullDoc2, FlatDoc, NoDateDoc}

MonitorCollections == { S \in SUBSET MonitorDocs : Cardinality(S) <= MaxDocs }

\* mapping tables: no row, a row for the first document, and that row with a
\* row for the second document that has no department field
ProcessingTables ==
  LET roads == [category |-> "Streetlight", city |-> "Delhi",
                department |-> "Roads Department", higher_authority |-> "Head",
                status |-> ""]
      noDepartment == [category |-> "Garbage", city |-> "Mumbai",
                       department |-> Absent, higher_authority |-> "Head",
                       status |-> ""]
  IN { <<>>, <<roads>>, <<roads, noDepartment>> }

\* monitorIncomingComplaints: the IncomingComplaint built from one document;
\* of the fields that always get a defined value only those that the
\* processing reads are kept
MonitoredComplaint(doc) ==
  LET data == doc.data
  IN [complaintId |-> doc.id,
      category |-> OrElse(Str(data, "category"), "Other"),
      city |-> OrElse(Str(data, "city"), OrElse(Str(data, "ward"), "Unknown")),
      description |-> OrElse(Str(data, "description"), ""),
      address |-> Str(data, "address"),
      ward |-> Str(data, "ward"),
      createdAt |-> IF Has(data, "createdAt") THEN data.createdAt ELSE Undefined,
      imageAnalysis |-> IF Has(data, "imageAnalysis") THEN data.imageAnalysis
                        ELSE NoAnalysis]

\* Firestore rejects data that holds the value undefined: getFirestore is
\* called without ignoreUndefinedProperties, so set and addDoc throw
UnsupportedFieldValue(data) ==
  \/ Has(data, "address") /\ data.address = Absent
  \/ Has(data, "ward") /\ data.ward = Absent
  \/ Has(data, "imageAnalysis") /\ data.imageAnalysis.kind = "undefined"
  \/ data.createdAt.kind = "undefined"
  \/ data.department = Absent

\* the arguments of the direct calls
BatchLists ==
  LET pool == { MonitoredComplaint(d) : d \in {FullDoc, FullDoc2, FlatDoc} }
  IN UNION { [1..n -> pool] : n \in 0..MaxBatch }

\* each processIncomingComplaint of a batch, settled
ProcessAll(list, tbl, faults, clock) ==
  [k \in 1..Len(list) |-> processIncomingComplaint(list[k], tbl, faults[k], clock)]

\* batch.set(docRef, {...processedComplaint, updatedAt: Timestamp.now()})
BatchDocs(settled, clock) ==
  [k \in 1..Len(settled) |-> Merge(settled[k].value, [updatedAt |-> Ts(clock)])]

\* processBatchComplaints: Promise.all rejects when one
\* processIncomingComplaint throws, batch.set throws on an unsupported value,
\* batch.commit rejects when the store fails (a batch without writes commits
\* without reaching the store); the catch block throws again
processBatchComplaints(list, tbl, faults, commitFails, clock) ==
  LET settled == ProcessAll(list, tbl, faults, clock)
  IN IF \E k \in 1..Len(list) : settled[k].pc = "thrown"
     THEN [pc |-> "thrown", settled |-> settled, list |-> <<>>, docs |-> <<>>]
     ELSE IF (\E k \in 1..Len(list) : UnsupportedFieldValue(BatchDocs(settled, clock)[k]))
             \/ (commitFails /\ list # <<>>)
          THEN [pc |-> "thrown", settled |-> settled, list |-> <<>>, docs |-> <<>>]
          ELSE [pc |-> "returned", settled |-> settled,
                list |-> [k \in 1..Len(list) |-> settled[k].value],
                docs |-> BatchDocs(settled, clock)]

\* createDepartmentNotification: the document it adds
DepartmentNotification(complaint, clock) ==
  [type |-> "new_complaint", department |-> complaint.department,
   complaintId |-> complaint.complaintId, category |-> complaint.category,
   city |-> complaint.city, priority |-> complaint.priority,
   createdAt |-> Ts(clock), read |-> FALSE, slaDeadline |-> complaint.slaDeadline]

\* updateComplaintStatistics: updateDoc on the daily document sets
\* totalComplaints to undefined + 1 || 1; it fails on a document that does
\* not exist, and so does the updateDoc of its .catch; the failure is logged
UpdatedStatistics(statistics, fails) ==
  IF statistics.exists /\ ~fails
  THEN [exists |-> TRUE, totalComplaints |-> 1]
  ELSE statistics

\* the writes saveProcessedComplaint may find failing
SaveFaults == {"none", "processed_complaints", "notifications", "statistics"}

\* saveProcessedComplaint: what it returns and what adminDb holds afterwards
saveProcessedComplaint(processedComplaint, store, fault, clock) ==
  LET document == Merge(processedComplaint,
                    [createdAt |-> processedComplaint.createdAt,
                     updatedAt |-> Ts(clock)])
  IN IF fault = "processed_complaints" \/ UnsupportedFieldValue(document)
     THEN [value |-> FALSE, store |-> store]
     ELSE [value |-> TRUE,
           store |->
             [processed_complaints |-> Append(store.processed_complaints, document),
              notifications |->
                IF fault = "notifications" THEN store.notifications
                ELSE Append(store.notifications,
                            DepartmentNotification(processedComplaint, clock)),
              statistics |-> UpdatedStatistics(store.statistics, fault = "statistics")]]

\* the ProcessedComplaint handed to saveProcessedComplaint: the result of
\* processIncomingComplaint on a complaint of the model
Processable(tbl, clock) ==
  { c \in { MonitoredComplaint(d) : d \in {FullDoc, FullDoc2, FlatDoc} } :
      processIncomingComplaint(c, tbl, "none", clock).pc = "done" }

\* a caller invokes processBatchComplaints(input.list)
ProcessBatch(faults, commitFails) ==
  /\ input.kind = "batch"
  /\ output = NoOutput
  /\ LET out == processBatchComplaints(input.list, civic_issues["userDb"], faults,
                                        commitFails, now)
     IN /\ output' = [kind |-> IF out.pc = "returned" THEN "batchReturned"
                               ELSE "batchThrown",
                      settled |-> out.settled, list |-> out.list,
                      commitFailed |-> commitFails]
        /\ written' = [written EXCEPT !.processed_complaints = @ \o out.docs]
  /\ UNCHANGED <<civic_issues, call, prev, batch, readVars, hookVars, input,
                 monitor, monitorDelivered, userVars, otherVars>>

\* a caller invokes saveProcessedComplaint(input.value)
SaveProcessed(fault) ==
  /\ input.kind = "save"
  /\ output = NoOutput
  /\ LET out == saveProcessedComplaint(input.value, written, fault, now)
     IN /\ output' = [kind |-> "saved", value |-> out.value, fault |-> fault]
        /\ written' = out.store
  /\ UNCHANGED <<civic_issues, call, prev, batch, readVars, hookVars, input,
                 monitor, monitorDelivered, userVars, otherVars>>

\* adminDb holds nothing or the daily statistics document; a caller is about
\* to process a batch or to save a processed complaint
InitProcessing ==
  /\ \E tbl \in ProcessingTables : civic_issues = [s \in Stores |-> tbl]
  /\ call = IdleCall
  /\ prev = NoPrev
  /\ batch = IdleBatch
  /\ ReadsIdle
  /\ HookIdle
  /\ UserIdle
  /\ OtherIdle
  /\ monitor = IdleMonitor
  /\ monitorDelivered = <<>>
  /\ \E statistics \in {NoDailyStatistics, [exists |-> TRUE, totalComplaints |-> 4]} :
       written = [NothingWritten EXCEPT !.statistics = statistics]
  /\ \/ \E list \in BatchLists : input = [kind |-> "batch", list |-> list]
     \/ \E c \in Processable(civic_issues["userDb"], now) :
          input = [kind |-> "save",
                   value |-> processIncomingComplaint(c, civic_issues["userDb"],
                                                      "none", now).value]
  /\ output = NoOutput

\* the list a caller of processBatchComplaints passes
InputList == IF input.kind = "batch" THEN input.list ELSE <<>>

NextProcessing ==
  \/ \E faults \in [1..Len(InputList) -> StoreFaults] :
       \E commitFails \in BOOLEAN : ProcessBatch(faults, commitFails)
  \/ \E fault \in SaveFaults : SaveProcessed(fault)

\* direct calls of the two functions that write processed complaints
SpecProcessing == InitProcessing /\ [][NextProcessing]_vars

(***************************************************************************)
(* The monitor: monitorIncomingComplaints                                  *)
(***************************************************************************)
\* largest number of snapshot handlers of the monitor in flight
MaxRuns == 2

\* !data.processed
Unprocessed(doc) == ~(Has(doc.data, "processed") /\ doc.data.processed)

\* newComplaints: the unprocessed documents of a snapshot, orderBy createdAt
\* desc, limit 50
NewComplaints(collection) ==
  LET docs == SelectSeq(ComplaintsQuery(collection, DefaultOptions), Unprocessed)
  IN [k \in 1..Len(docs) |-> MonitoredComplaint(docs[k])]

\* batch.update(docRef, {processed: true, processedAt: Timestamp.now()})
Marked(doc, clock) ==
  [doc EXCEPT !.data = Merge(doc.data, [processed |-> TRUE, processedAt |-> Ts(clock)])]

\* the collection after the batch of updates for the complaints of items
MarkAll(collection, items, clock) ==
  { IF \E k \in 1..Len(items) : items[k].complaintId = doc.id
    THEN Marked(doc, clock) ELSE doc : doc \in collection }

\* monitorIncomingComplaints(callback) has called onSnapshot: the first
\* snapshot is due
Subscribed == [IdleMonitor EXCEPT !.active = TRUE, !.fresh = TRUE]

\* the ids of the complaints of a handler
RunIds(run) == [k \in 1..Len(run.items) |-> run.items[k].complaintId]

RemoveAt(seq, r) == SubSeq(seq, 1, r - 1) \o SubSeq(seq, r + 1, Len(seq))

\* the caller invokes the function onSnapshot returned; handlers in flight
\* go on
StopMonitoring ==
  /\ monitor.active
  /\ monitor' = [monitor EXCEPT !.active = FALSE, !.fresh = FALSE]
  /\ UNCHANGED <<civic_issues, call, prev, batch, readVars, hookVars, pipeVars,
                 written, monitorDelivered, userVars, otherVars>>

\* a citizen submits a complaint
ComplaintSubmitted(doc) ==
  /\ Cardinality(complaints) < MaxDocs
  /\ \A d \in complaints : d.id # doc.id
  /\ complaints' = complaints \cup {doc}
  /\ monitor' = [monitor EXCEPT
                   !.fresh = @ \/ (monitor.active /\ Has(doc.data, "createdAt"))]
  /\ UNCHANGED <<civic_issues, call, prev, batch, now, listener, handler,
                 delivered, fetch, fetched, hookVars, pipeVars, written,
                 monitorDelivered, userVars, otherVars>>

\* a snapshot arrives: the handler collects the unprocessed complaints and,
\* when there are some, calls processBatchComplaints
MonitorSnapshot ==
  /\ monitor.active
  /\ monitor.fresh
  /\ Len(monitor.runs) < MaxRuns
  /\ LET newComplaints == NewComplaints(complaints)
     IN monitor' =
          [monitor EXCEPT
             !.fresh = FALSE,
             !.runs = IF newComplaints = <<>> THEN @
                      ELSE Append(@, [pc |-> "processing", items |-> newComplaints,
                                      results |-> <<>>])]
  /\ UNCHANGED <<civic_issues, call, prev, batch, readVars, hookVars, pipeVars,
                 written, monitorDelivered, userVars, otherVars>>

\* processBatchComplaints settles in handler r: its results are written to
\* processed_complaints and the handler goes on to mark the raw complaints,
\* or it throws and the catch block of the handler logs
MonitorBatchSettles(r, faults, commitFails) ==
  /\ r \in 1..Len(monitor.runs)
  /\ monitor.runs[r].pc = "processing"
  /\ LET out == processBatchComplaints(monitor.runs[r].items, civic_issues["userDb"],
                                        faults, commitFails, now)
     IN /\ written' = [written EXCEPT !.processed_complaints = @ \o out.docs]
        /\ monitor' =
             [monitor EXCEPT
                !.runs = IF out.pc = "returned"
                         THEN [@ EXCEPT ![r] = [pc |-> "marking",
                                                items |-> monitor.runs[r].items,
                                                results |-> out.list]]
                         ELSE RemoveAt(@, r),
                !.last = IF out.pc = "returned" THEN @
                         ELSE [outcome |-> "processingFailed",
                               ids |-> RunIds(monitor.runs[r])]]
  /\ UNCHANGED <<civic_issues, call, prev, batch, readVars, hookVars, pipeVars,
                 monitorDelivered, userVars, otherVars>>

\* the batch of updates of handler r commits: every complaint of its snapshot
\* gets processed and processedAt, and the callback is invoked; the changed
\* documents make a new snapshot due
MonitorMarked(r) ==
  /\ r \in 1..Len(monitor.runs)
  /\ monitor.runs[r].pc = "marking"
  /\ complaints' = MarkAll(complaints, monitor.runs[r].items, now)
  /\ monitorDelivered' = Append(monitorDelivered, monitor.runs[r].results)
  /\ monitor' = [monitor EXCEPT
                   !.runs = RemoveAt(@, r),
                   !.fresh = @ \/ (monitor.active /\ complaints' # complaints),
                   !.last = [outcome |-> "delivered",
                             ids |-> RunIds(monitor.runs[r])]]
  /\ UNCHANGED <<civic_issues, call, prev, batch, now, listener, handler,
                 delivered, fetch, fetched, hookVars, pipeVars, written, userVars, otherVars>>

\* a handler that invokes the callback before it awaits the commit
MonitorMarkFailsAfterCallback(r) ==
  /\ r \in 1..Len(monitor.runs)
  /\ monitor.runs[r].pc = "marking"
  /\ monitorDelivered' = Append(monitorDelivered, monitor.runs[r].results)
  /\ monitor' = [monitor EXCEPT
                   !.runs = RemoveAt(@, r),
                   !.last = [outcome |-> "commitFailed",
                             ids |-> RunIds(monitor.runs[r])]]
  /\ UNCHANGED <<civic_issues, call, prev, batch, readVars, hookVars, pipeVars,
                 written, userVars, otherVars>>

\* the batch of updates of handler r is rejected: the catch block logs
MonitorMarkFails(r) ==
  /\ r \in 1..Len(monitor.runs)
  /\ monitor.runs[r].pc = "marking"
  /\ monitor' = [monitor EXCEPT
                   !.runs = RemoveAt(@, r),
                   !.last = [outcome |-> "commitFailed",
                             ids |-> RunIds(monitor.runs[r])]]
  /\ UNCHANGED <<civic_issues, call, prev, batch, readVars, hookVars, pipeVars,
                 written, monitorDelivered, userVars, otherVars>>

\* the items of handler r, none when there is no such handler
RunItems(r) == IF r \in 1..Len(monitor.runs) THEN monitor.runs[r].items ELSE <<>>

InitMonitor ==
  /\ \E tbl \in ProcessingTables : civic_issues = [s \in Stores |-> tbl]
  /\ call = IdleCall
  /\ prev = NoPrev
  /\ batch = IdleBatch
  /\ complaints \in MonitorCollections
  /\ now = ClockStart
  /\ listener = IdleListener
  /\ handler = IdleHandler
  /\ delivered = NothingDelivered
  /\ fetch = IdleFetch
  /\ fetched = NothingFetched
  /\ HookIdle
  /\ PipeIdle
  /\ written = NothingWritten
  /\ monitor = Subscribed
  /\ monitorDelivered = <<>>
  /\ UserIdle
  /\ OtherIdle

NextMonitor ==
  \/ StopMonitoring
  \/ \E doc \in MonitorDocs : ComplaintSubmitted(doc)
  \/ MonitorSnapshot
  \/ \E r \in 1..MaxRuns :
       \E faults \in [1..Len(RunItems(r)) -> StoreFaults] :
         \E commitFails \in BOOLEAN : MonitorBatchSettles(r, faults, commitFails)
  \/ \E r \in 1..MaxRuns : MonitorMarked(r)
  \/ \E r \in 1..MaxRuns : MonitorMarkFails(r)

\* one monitorIncomingComplaints subscription over a collection that grows
SpecMonitor == InitMonitor /\ [][NextMonitor]_vars

(***************************************************************************)
(* Snapshot handlers of listenToEnrichedComplaints that overlap            *)
(***************************************************************************)
\* the snapshots the subscription receives
MaxSnapshots == 2

\* the snapshots received so far: every handler ends in one invocation of
\* the callback
SnapshotsTaken == Len(inflight) + Len(callbacks)

\* a complaint is added to or removed from the collection: a snapshot is due
CollectionChanges(doc) ==
  /\ listener.active
  /\ SnapshotsTaken < MaxSnapshots
  /\ complaints' = IF doc \in complaints THEN complaints \ {doc}
                   ELSE complaints \cup {doc}
  /\ Cardinality(complaints') <= MaxDocs
  /\ listener' = [listener EXCEPT !.fresh = TRUE]
  /\ UNCHANGED <<moreVars, civic_issues, call, prev, batch, now, handler, delivered,
                 fetch, fetched>>

\* onSnapshot invokes the async handler: it builds the raw complaints, starts
\* one enrichment per complaint and awaits Promise.all; onSnapshot does not
\* wait for the promise the handler returns. Promise.all of no promise
\* resolves before the next snapshot can arrive, so the handler of an empty
\* snapshot invokes the callback at once
OverlapSnapshotArrives ==
  /\ listener.active
  /\ listener.fresh
  /\ SnapshotsTaken < MaxSnapshots
  /\ LET snapshot == ComplaintsQuery(complaints, listener.options)
     IN IF snapshot = <<>>
        THEN /\ callbacks' = Append(callbacks,
                               [snapshot |-> SnapshotsTaken + 1, raw |-> <<>>,
                                list |-> <<>>])
             /\ UNCHANGED inflight
        ELSE /\ inflight' = Append(inflight,
                              [snapshot |-> SnapshotsTaken + 1,
                               items |-> [i \in 1..Len(snapshot) |->
                                            Pending(ListenedComplaint(snapshot[i]))]])
             /\ UNCHANGED callbacks
  /\ listener' = [listener EXCEPT !.fresh = FALSE]
  /\ UNCHANGED <<civic_issues, call, prev, batch, complaints, now, handler, delivered,
                 fetch, fetched, hookVars, pipeVars, monitorVars, userVars,
                 monitoringHook>>

\* the enrichments of one handler in flight have settled: Promise.all
\* resolves, the handler filters and invokes the callback, or invokes it with
\* [] from its catch block
OverlapHandlerCompletes(r, faults) ==
  /\ r \in 1..Len(inflight)
  /\ faults \in [1..Len(inflight[r].items) -> StoreFaults]
  /\ LET items == [i \in 1..Len(inflight[r].items) |->
                     Settle(inflight[r].items[i], civic_issues["adminDb"],
                            faults[i], now)]
         list == IF \/ AnyRejected(items)
                    \/ FilterThrows(Values(items), listener.options.filters)
                 THEN <<>>
                 ELSE ApplyFilters(Values(items), listener.options.filters)
     IN callbacks' = Append(callbacks,
                       [snapshot |-> inflight[r].snapshot,
                        raw |-> [i \in 1..Len(items) |->
                                   inflight[r].items[i].value.complaintId],
                        list |-> list])
  /\ inflight' = RemoveAt(inflight, r)
  /\ UNCHANGED <<civic_issues, call, prev, batch, readVars, hookVars, pipeVars,
                 monitorVars, userVars, monitoringHook>>

\* the subscription of listenToEnrichedComplaints(callback) is made and its
\* first snapshot is due
InitOverlap ==
  /\ \E tbl \in StreamTables : civic_issues = [s \in Stores |-> tbl]
  /\ call = IdleCall
  /\ prev = NoPrev
  /\ batch = IdleBatch
  /\ complaints \in Collections
  /\ now = ClockStart
  /\ \E options \in StreamOptions :
       listener = [active |-> TRUE, fresh |-> TRUE, unsubscribed |-> FALSE,
                   options |-> options]
  /\ handler = IdleHandler
  /\ delivered = NothingDelivered
  /\ fetch = IdleFetch
  /\ fetched = NothingFetched
  /\ HookIdle
  /\ PipeIdle
  /\ MonitorIdle
  /\ UserIdle
  /\ OtherIdle

NextOverlap ==
  \/ \E doc \in DocPool : CollectionChanges(doc)
  \/ OverlapSnapshotArrives
  \/ \E r \in 1..Len(inflight) :
       \E faults \in [1..Len(inflight[r].items) -> StoreFaults] :
         OverlapHandlerCompletes(r, faults)

\* one subscription whose snapshots arrive while earlier handlers still await
SpecOverlap == InitOverlap /\ [][NextOverlap]_vars

(***************************************************************************)
(* useComplaintProcessing: startMonitoring, stopMonitoring, cleanup        *)
(***************************************************************************)
\* the calls of monitorIncomingComplaints one component makes
MaxSubscriptions == 2

\* the lists of processed complaints the state of the component holds
MaxLists == 2

notMonitoringHookVars ==
  <<civic_issues, call, prev, batch, readVars, hookVars, pipeVars, monitorVars,
    userVars, overlapVars>>

\* setIsMonitoring(value): React drops the update of an unmounted component
SetIsMonitoring(hook, value) ==
  IF hook.mounted THEN [hook EXCEPT !.isMonitoring = value] ELSE hook

\* startMonitoring as created by a render that saw isMonitoring = seen;
\* monitorIncomingComplaints returns the unsubscribe function or throws
StartMonitoring(seen, throws) ==
  /\ seen \in monitoringHook.closures
  /\ monitoringHook.made < MaxSubscriptions
  /\ monitoringHook' =
       IF seen \/ monitoringHook.ref # 0
       THEN monitoringHook
       ELSE IF throws
            THEN SetIsMonitoring(monitoringHook, FALSE)
            ELSE [SetIsMonitoring(monitoringHook, TRUE) EXCEPT
                    !.ref = monitoringHook.made + 1,
                    !.subs = @ \cup {monitoringHook.made + 1},
                    !.made = @ + 1]
  /\ UNCHANGED notMonitoringHookVars

\* stopMonitoring as created by a render that saw isMonitoring = seen
StopMonitoringHook(seen) ==
  /\ seen \in monitoringHook.closures
  /\ monitoringHook' =
       IF ~seen \/ monitoringHook.ref = 0
       THEN monitoringHook
       ELSE [SetIsMonitoring(monitoringHook, FALSE) EXCEPT
               !.subs = @ \ {monitoringHook.ref},
               !.ref = 0]
  /\ UNCHANGED notMonitoringHookVars

\* a subscription that is active hands a list of processed complaints to its
\* callback, which puts it before the lists of the state
MonitorCallback(id) ==
  /\ id \in monitoringHook.subs
  /\ monitoringHook.processedComplaints < MaxLists
  /\ monitoringHook' =
       [monitoringHook EXCEPT
          !.processedComplaints = IF monitoringHook.mounted THEN @ + 1 ELSE @,
          !.received = @ \cup {id}]
  /\ UNCHANGED notMonitoringHookVars

\* clearComplaints()
ClearComplaints ==
  /\ monitoringHook.mounted
  /\ monitoringHook' = [monitoringHook EXCEPT !.processedComplaints = 0]
  /\ UNCHANGED notMonitoringHookVars

\* React renders the component again after a state update: the callbacks are
\* created anew over the current isMonitoring
Render ==
  /\ monitoringHook.mounted
  /\ monitoringHook.rendered # monitoringHook.isMonitoring
  /\ monitoringHook' =
       [monitoringHook EXCEPT !.rendered = monitoringHook.isMonitoring,
                              !.closures = @ \cup {monitoringHook.isMonitoring}]
  /\ UNCHANGED notMonitoringHookVars

\* the component unmounts: the cleanup of the effect calls
\* unsubscribeRef.current when it is set, and leaves the ref as it is
Unmount ==
  /\ monitoringHook.mounted
  /\ monitoringHook' =
       [monitoringHook EXCEPT !.mounted = FALSE,
                              !.subs = @ \ {monitoringHook.ref}]
  /\ UNCHANGED notMonitoringHookVars

InitMonitoringHook ==
  /\ civic_issues = [s \in Stores |-> <<>>]
  /\ call = IdleCall
  /\ prev = NoPrev
  /\ batch = IdleBatch
  /\ complaints = {}
  /\ now = ClockStart
  /\ listener = IdleListener
  /\ handler = IdleHandler
  /\ delivered = NothingDelivered
  /\ fetch = IdleFetch
  /\ fetched = NothingFetched
  /\ MoreIdle

NextMonitoringHook ==
  \/ \E seen, throws \in BOOLEAN : StartMonitoring(seen, throws)
  \/ \E seen \in BOOLEAN : StopMonitoringHook(seen)
  \/ \E id \in 1..MaxSubscriptions : MonitorCallback(id)
  \/ ClearComplaints
  \/ Render
  \/ Unmount

\* one component that uses useComplaintProcessing, from its first render on
SpecMonitoringHook == InitMonitoringHook /\ [][NextMonitoringHook]_vars

(***************************************************************************)
(* Properties of the resolver                                              *)
(***************************************************************************)
AdminTable == civic_issues["adminDb"]

HasExactRow(tbl, c) ==
  \E i \in 1..Len(tbl) : tbl[i].category = c.category /\ tbl[i].city = c.city

HasCategoryRow(tbl, c) ==
  \E i \in 1..Len(tbl) : tbl[i].category = c.category

\* mapComplaintToDepartment has returned and every query it issued was answered
AnsweredAdminCall ==
  /\ call.pc = "done"
  /\ call.fn = "mapComplaintToDepartment"
  /\ call.err = "none"

\* C1: when the admin mapping table holds a row with the complaint's category
\* and city, mapComplaintToDepartment (its queries answered; a failing query
\* is the case of C4) returns isDefault = FALSE, the department and
\* higher_authority of one such row, and matchedCriteria equal to the
\* complaint's category and city.
C1_ExactMatch ==
  (AnsweredAdminCall /\ HasExactRow(AdminTable, call.complaint)) =>
    /\ call.result.isDefault = FALSE
    /\ \E i \in 1..Len(AdminTable) :
         /\ AdminTable[i].category = call.complaint.category
         /\ AdminTable[i].city = call.complaint.city
         /\ call.result.department = AdminTable[i].department
         /\ call.result.higher_authority = AdminTable[i].higher_authority
    /\ call.result.matchedCriteria =
         [category |-> call.complaint.category, city |-> call.complaint.city]

\* an exact match was returned from a table that also holds a row of the same
\* category under another city and with another department
C1_Witness ==
  /\ AnsweredAdminCall
  /\ HasExactRow(AdminTable, call.complaint)
  /\ \E i \in 1..Len(AdminTable) :
       /\ AdminTable[i].category = call.complaint.category
       /\ AdminTable[i].city # call.complaint.city
       /\ AdminTable[i].department # call.result.department

\* C2: when the admin table has no row for the complaint's (category, city)
\* but has a row of that category under another city, mapComplaintToDepartment
\* (its queries answered) returns the department of such a row with
\* isDefault = FALSE and matchedCriteria.city equal to that row's city, which
\* is not the complaint's city.
C2_CategoryOnlyMatch ==
  (/\ AnsweredAdminCall
   /\ ~HasExactRow(AdminTable, call.complaint)
   /\ HasCategoryRow(AdminTable, call.complaint)) =>
    /\ call.result.isDefault = FALSE
    /\ call.result.matchedCriteria.category = call.complaint.category
    /\ call.result.matchedCriteria.city # call.complaint.city
    /\ \E i \in 1..Len(AdminTable) :
         /\ AdminTable[i].category = call.complaint.category
         /\ call.result.department = AdminTable[i].department
         /\ call.result.higher_authority = AdminTable[i].higher_authority
         /\ call.result.matchedCriteria.city = AdminTable[i].city

\* a category-only match was returned
C2_Witness ==
  /\ AnsweredAdminCall
  /\ ~HasExactRow(AdminTable, call.complaint)
  /\ HasCategoryRow(AdminTable, call.complaint)
  /\ call.result.matchedCriteria.city \in Cities

\* C3 as stated: whenever the (category, city) pair of the complaint is absent
\* from the admin table, the call returns isDefault = TRUE with a non-empty
\* department.
C3_PairAbsentGivesDefault ==
  (/\ call.pc \in {"done", "thrown"}
   /\ call.fn = "mapComplaintToDepartment"
   /\ ~HasExactRow(AdminTable, call.complaint)) =>
    /\ call.pc = "done"
    /\ call.result.isDefault = TRUE
    /\ call.result.department # ""

\* C3 (amended): whenever the admin table holds no row of the complaint's
\* category (no exact and no category-only match), mapComplaintToDepartment
\* ends by returning, never by throwing, a result with isDefault = TRUE and a
\* non-empty department; this covers failing queries and malformed complaints.
C3_FallbackTotality ==
  (/\ call.pc \in {"done", "thrown"}
   /\ call.fn = "mapComplaintToDepartment"
   /\ ~HasCategoryRow(AdminTable, call.complaint)) =>
    /\ call.pc = "done"
    /\ call.result # NoResult
    /\ call.result.isDefault = TRUE
    /\ call.result.department # ""

\* the default department was returned for a well-formed complaint after both
\* queries were answered from a non-empty table
C3_Witness ==
  /\ AnsweredAdminCall
  /\ call.complaint.category \in Categories
  /\ ~HasCategoryRow(AdminTable, call.complaint)
  /\ AdminTable # <<>>
  /\ call.result.isDefault = TRUE

\* C4: when the exact-match query or the category-only query of either
\* resolver raises an error, the call does not throw: it returns the default
\* result with isDefault = TRUE, status "active" and matchedCriteria echoing
\* the complaint's category and city.
C4_QueryErrorRecovered ==
  (call.err \in {"q1", "q2"}) =>
    /\ call.pc = "done"
    /\ call.result.isDefault = TRUE
    /\ call.result.status = "active"
    /\ call.result.department # ""
    /\ call.result.matchedCriteria =
         [category |-> call.complaint.category, city |-> call.complaint.city]

\* the category-only query of the frontend resolver failed although its store
\* holds a row of the complaint's category
C4_Witness ==
  /\ call.err = "q2"
  /\ call.fn = "mapComplaintToDepartmentFrontend"
  /\ HasCategoryRow(civic_issues["userDb"], call.complaint)

\* a failed exact-match query of the admin resolver
C4_WitnessAdmin ==
  /\ call.err = "q1"
  /\ call.fn = "mapComplaintToDepartment"
  /\ HasExactRow(AdminTable, call.complaint)

\* C5: every call of mapComplaintToDepartment eventually returns a result,
\* also when a lookup errors or never completes.
C5_EveryCallReturns ==
  (call.pc \in {"q1", "q2"} /\ call.fn = "mapComplaintToDepartment")
    ~> (call.pc = "done")

ResolverFormsAgree ==
  (call.pc = "done" /\ call.fn = "mapComplaintToDepartment") =>
    \E fault \in StoreFaults :
      /\ call.result = mapComplaintToDepartment(AdminTable, call.complaint, fault).result
      /\ call.err = FailedAt(AdminTable, call.complaint, fault)

\* C21: over the same mapping table contents, mapComplaintToDepartment and
\* mapComplaintToDepartmentFrontend called with the same complaint, to which
\* the stores responded alike (both answered, or both failed at the same
\* query), end alike and return the same department, higher_authority,
\* status, isDefault and matchedCriteria
C21_ResolversAgree ==
  (/\ prev.has
   /\ call.pc \in {"done", "thrown"}
   /\ prev.fn # call.fn
   /\ prev.complaint = call.complaint
   /\ prev.err = call.err
   /\ civic_issues["adminDb"] = civic_issues["userDb"]) =>
    /\ call.pc = prev.pc
    /\ call.result.department = prev.result.department
    /\ call.result.higher_authority = prev.result.higher_authority
    /\ call.result.status = prev.result.status
    /\ call.result.isDefault = prev.result.isDefault
    /\ call.result.matchedCriteria = prev.result.matchedCriteria

\* the admin resolver and then the frontend resolver answered the same
\* complaint from a category-only row of another city
C21_Witness ==
  /\ prev.has
  /\ prev.fn = "mapComplaintToDepartment"
  /\ call.fn = "mapComplaintToDepartmentFrontend"
  /\ call.pc = "done"
  /\ prev.complaint = call.complaint
  /\ prev.err = "none"
  /\ call.err = "none"
  /\ civic_issues["adminDb"] = civic_issues["userDb"]
  /\ ~call.result.isDefault
  /\ call.result.matchedCriteria.city # call.complaint.city

\* C22: when both queries of mapComplaintToDepartment are answered and the
\* table holds neither an exact nor a category-only row for the complaint,
\* the department returned is "General Grievances"
C22_FallbackIsGeneralGrievances ==
  (/\ AnsweredAdminCall
   /\ ~HasCategoryRow(AdminTable, call.complaint)) =>
    call.result.department = "General Grievances"

(***************************************************************************)
(* Properties of repeated enrichment                                       *)
(***************************************************************************)
\* the fields of an enriched record that are not tied to the current time
NotTiedToNow(record) ==
  [f \in DOMAIN record \ {"daysSinceCreated", "formattedCreatedAt"} |-> record[f]]

C29_ResolvedDepartmentIsKept ==
  (output.kind = "enriched") =>
    LET lookup == mapComplaintToDepartment(civic_issues["adminDb"],
                    [category |-> input.value.category, city |-> input.value.city],
                    output.fault)
    IN (lookup.pc = "done" /\ ~lookup.result.isDefault) =>
         /\ output.value.isDefaultMapping = FALSE
         /\ output.value.assignedDepartment = lookup.result.department

(***************************************************************************)
(* Properties of the two document shapes                                   *)
(***************************************************************************)
\* a string field holds a value: it is there and not empty
Present(v) == v # Absent /\ v # ""

\* nested before flat
NestedThenFlat(nested, flat, value) ==
  /\ Present(nested) => value = nested
  /\ (~Present(nested) /\ Present(flat)) => value = flat

\* nested before flat before the default
NestedFlatDefault(nested, flat, default, value) ==
  /\ NestedThenFlat(nested, flat, value)
  /\ (~Present(nested) /\ ~Present(flat)) => value = default

\* nested before flat before 0, for a coordinate
NestedFlatZero(nested, flat, value) ==
  /\ nested # 0 => value = nested
  /\ (nested = 0 /\ flat # 0) => value = flat
  /\ (nested = 0 /\ flat = 0) => value = 0

\* C24: every document read becomes a complaint, whatever fields it lacks, and
\* each of city, pincode, the submitter's id, name and phone and the
\* coordinates is the nested value when the document holds one, otherwise the
\* flat value, and the default only when the document holds neither; the
\* default of city and pincode is "Unknown", which applies when the document
\* has no address either
C24_NestedThenFlatThenDefault ==
  (output.kind \in {"userComplaints", "userSnapshot", "userComplaint"}) =>
    /\ Len(output.list) = Len(output.docs)
    /\ \A i \in 1..Len(output.docs) :
         LET data == output.docs[i].data
             complaint == output.list[i]
             noAddress == ~Has(data, "address") /\
                          LocationStr(data, "address") = Absent
         IN /\ NestedThenFlat(LocationStr(data, "city"), Str(data, "city"),
                 complaint.city)
            /\ NestedThenFlat(LocationStr(data, "pincode"), Str(data, "pincode"),
                 complaint.pincode)
            /\ \A f \in {"city", "pincode"} :
                 /\ (/\ ~Present(LocationStr(data, f))
                     /\ ~Present(Str(data, f))
                     /\ noAddress) => complaint[f] = "Unknown"
                 /\ complaint[f] = "Unknown" =>
                      ~Present(LocationStr(data, f)) /\ ~Present(Str(data, f))
            /\ NestedFlatDefault(UserStr(data, "id"), Str(data, "userId"),
                 "Unknown", complaint.userId)
            /\ NestedFlatDefault(UserStr(data, "name"), Str(data, "userName"),
                 "Anonymous", complaint.userName)
            /\ NestedFlatDefault(UserStr(data, "phone"), Str(data, "userPhone"),
                 "Not provided", complaint.userPhone)
            /\ NestedFlatZero(CoordinateNum(data, "lat"), Num(data, "latitude"),
                 complaint.latitude)
            /\ NestedFlatZero(CoordinateNum(data, "lng"), Num(data, "longitude"),
                 complaint.longitude)

\* a document that holds both shapes was read by its id: the nested city,
\* pincode, coordinates and submitter were taken
C24_Witness ==
  /\ output.kind = "userComplaint"
  /\ Len(output.list) = 1
  /\ LET data == output.docs[1].data
     IN /\ Present(LocationStr(data, "pincode"))
        /\ Present(Str(data, "pincode"))
        /\ LocationStr(data, "pincode") # Str(data, "pincode")
        /\ Present(UserStr(data, "id"))
        /\ Present(Str(data, "userId"))
        /\ output.list[1].pincode = LocationStr(data, "pincode")
        /\ output.list[1].userId = UserStr(data, "id")
        /\ output.list[1].latitude = CoordinateNum(data, "lat")
        /\ Num(data, "latitude") \notin {0, CoordinateNum(data, "lat")}

(***************************************************************************)
(* Properties of overlapping snapshot handlers                             *)
(***************************************************************************)
\* C25: the callback of listenToEnrichedComplaints is invoked in the order of
\* the snapshots, and once no handler is in flight the list delivered last is
\* the enrichment of the latest snapshot
C25_CallbacksInSnapshotOrder ==
  /\ \A i, j \in 1..Len(callbacks) :
       i < j => callbacks[i].snapshot < callbacks[j].snapshot
  /\ (inflight = <<>> /\ callbacks # <<>>) =>
       callbacks[Len(callbacks)].snapshot = SnapshotsTaken

(***************************************************************************)
(* Properties of useComplaintProcessing                                    *)
(***************************************************************************)
\* C28: after any sequence of startMonitoring, stopMonitoring and unmount at
\* most one subscription is active, isMonitoring of a mounted component is
\* true exactly when one is active, and none is active after unmount
C28_OneSubscriptionWhileMonitoring ==
  /\ Cardinality(monitoringHook.subs) <= 1
  /\ monitoringHook.mounted =>
       (monitoringHook.isMonitoring <=> monitoringHook.subs # {})
  /\ ~monitoringHook.mounted => monitoringHook.subs = {}

(***************************************************************************)
(* Properties of the batch resolver                                        *)
(***************************************************************************)
\* C7: when mapComplaintsToDepartments returns, the map has an entry under the
\* key of every input complaint, and every complaint whose lookup failed is
\* mapped to the default result.
C7_BatchIsolation ==
  (batch.pc = "returned") =>
    \A i \in 1..Len(batch.items) :
      /\ batch.items[i].complaintId \in DOMAIN batch.results
      /\ (batch.items[i].err # "none") =>
           /\ batch.results[batch.items[i].complaintId].isDefault = TRUE
           /\ batch.results[batch.items[i].complaintId].department = "Other Department"

\* the same for the complaints that carry a complaintId
C7_BatchIsolationWithIds ==
  (batch.pc = "returned") =>
    \A i \in 1..Len(batch.items) :
      (batch.items[i].complaint.complaintId # Absent) =>
        /\ batch.items[i].complaintId \in DOMAIN batch.results
        /\ (batch.items[i].err # "none") =>
             batch.results[batch.items[i].complaintId].isDefault = TRUE

\* C30: the map mapComplaintsToDepartments returns has one entry for each
\* complaint of its input: its size is the number of complaints, also when
\* complaints without a complaintId share category and city
C30_OneEntryPerComplaint ==
  (batch.pc = "returned") =>
    Cardinality(DOMAIN batch.results) = Len(batch.items)

(***************************************************************************)
(* Properties of the read paths                                            *)
(***************************************************************************)
Settled(items) == { i \in 1..Len(items) : items[i].state = "settled" }

\* C8: enrichComplaintWithDepartment never throws, and whenever its try block
\* failed the record it returns is the minimal one: the default department
\* "General Grievances", isDefaultMapping = true, processingStatus = 'pending'
C8_EnrichNeverThrows ==
  \A i \in Settled(handler.items) :
    LET item == handler.items[i]
    IN /\ item.pc = "done"
       /\ item.failed =>
            /\ item.value.assignedDepartment = "General Grievances"
            /\ item.value.isDefaultMapping = TRUE
            /\ item.value.processingStatus = "pending"

\* an enrichment failed on a stored complaint that is resolved and whose
\* category and city have a row in the mapping table
C8_Witness ==
  \E i \in Settled(handler.items) :
    /\ handler.items[i].failed
    /\ handler.items[i].value.status = "Resolved"
    /\ HasExactRow(AdminTable, handler.items[i].value)

\* C9: with every mapping lookup answered, a complaint returned by
\* fetchEnrichedComplaints and delivered by listenToEnrichedComplaints has the
\* same assigned department and the same priority on both paths
C9_ReadPathsAgree ==
  (/\ fetched.has /\ ~fetched.threw /\ fetched.answered
   /\ delivered.has /\ delivered.answered) =>
    \A i \in 1..Len(fetched.list), j \in 1..Len(delivered.list) :
      (fetched.list[i].complaintId = delivered.list[j].complaintId) =>
        /\ fetched.list[i].assignedDepartment = delivered.list[j].assignedDepartment
        /\ fetched.list[i].priority = delivered.list[j].priority

EnrichedFields ==
  {"assignedDepartment", "higherAuthority", "departmentStatus",
   "isDefaultMapping", "processingStatus", "daysSinceCreated"}

\* C10: every list handed to the callback of listenToEnrichedComplaints holds
\* only records on which the department fields, processingStatus and
\* daysSinceCreated are set; the list may be empty
C10_CallbackGetsEnrichedSnapshot ==
  delivered.has =>
    \A k \in 1..Len(delivered.list) : EnrichedFields \subseteq DOMAIN delivered.list[k]

\* the callback received two records, one of them the minimal fallback record
C10_Witness ==
  /\ delivered.has
  /\ Len(delivered.list) = MaxDocs
  /\ \E k \in 1..Len(delivered.list) : ~Has(delivered.list[k], "slaDeadline")
  /\ \E k \in 1..Len(delivered.list) : Has(delivered.list[k], "slaDeadline")

\* C11: once the unsubscribe function returned by listenToEnrichedComplaints
\* has been called, a snapshot handler whose enrichments were in flight at
\* that moment does not invoke the callback
C11_NoCallbackAfterUnsubscribe ==
  [][(listener.unsubscribed /\ handler.items # <<>>) => ~HandlerCompletes]_vars

(***************************************************************************)
(* Properties of SLA tracking                                              *)
(***************************************************************************)
\* C12: a breached issue has exactly one sla_breach notification for the
\* breach episode it is in, however many checks have run, a second episode
\* of the same issue included
C12_OneSignalPerEpisode ==
  \A k \in 1..Len(issues) :
    IsBreached(issues[k], now) => signalled[issues[k].id] = 1

(***************************************************************************)
(* Properties of the pipeline functions                                    *)
(***************************************************************************)
\* the deadline of the record is earlier than now and the record is not
\* resolved
DeadlinePassedUnresolved(c) ==
  /\ "slaDeadline" \in DOMAIN c
  /\ c.slaDeadline.iso < now
  /\ c.processingStatus # "resolved"

\* C13: getSLAStatus says breached exactly when the deadline of the issue is
\* earlier than now and the issue is not resolved; getEnrichedComplaintStats
\* counts, and getComplaintsNeedingAttention queues, as SLA breaches exactly
\* the records whose deadline is earlier than now and whose processing status
\* is not resolved
C13_BreachedIffLateAndUnresolved ==
  /\ (output.kind = "slaStatus") =>
       ((output.value.status = "breached") <=>
          (input.value.slaDeadline.iso < now /\ input.value.status # "Resolved"))
  /\ (output.kind = "stats") =>
       output.value.slaBreaches =
         Cardinality({k \in 1..Len(output.list) :
                        DeadlinePassedUnresolved(output.list[k])})
  /\ (output.kind = "attention") =>
       /\ \A k \in 1..Len(output.list) :
            DeadlinePassedUnresolved(output.list[k]) <=>
              (\E j \in 1..Len(output.value.slaBreaches) :
                 output.value.slaBreaches[j] = output.list[k])
       /\ \A j \in 1..Len(output.value.slaBreaches) :
            output.value.slaBreaches[j].processingStatus # "resolved"

\* the statistics of a resolved complaint whose deadline has passed count no
\* breach
C13_Witness ==
  /\ output.kind = "stats"
  /\ output.list[1].processingStatus = "resolved"
  /\ "slaDeadline" \in DOMAIN output.list[1]
  /\ output.list[1].slaDeadline.iso < now
  /\ output.value.slaBreaches = 0

\* the hours the SLA gives a priority, less 12 but not under 12 when the name
\* of the department holds "Water" or "Electricity"
SlaHoursRequired(priority, department) ==
  LET base == CASE priority = "High" -> 24
                [] priority = "Medium" -> 48
                [] priority = "Low" -> 72
  IN IF StringIncludes(department, "Water") \/ StringIncludes(department, "Electricity")
     THEN IF base - 12 > 12 THEN base - 12 ELSE 12
     ELSE base

\* C14: the SLA deadline of the record built by enrichComplaintWithDepartment
\* and of the record built by processIncomingComplaint is createdAt plus 24,
\* 48 or 72 hours for high, medium or low priority, less 12 hours but never
\* under 12 for a department whose name holds "Water" or "Electricity"
C14_SlaDeadline ==
  /\ (output.kind = "enriched" /\ ~output.failed) =>
       output.value.slaDeadline.iso =
         output.value.createdAt.hours
           + SlaHoursRequired(output.value.priority, output.value.assignedDepartment)
  /\ (output.kind = "processed") =>
       output.value.slaDeadline.hours =
         output.value.createdAt.hours
           + SlaHoursRequired(output.value.priority, output.value.department)

\* description.toLowerCase() holds "emergency"
MentionsEmergency(description) ==
  CharsInclude(LowerChars(Chars(description)), Chars("emergency"))

\* C15: a complaint whose description holds "emergency" in any casing has
\* priority High on the record built by processIncomingComplaint and on the
\* record returned by enrichComplaintWithDepartment
C15_EmergencyIsHigh ==
  (output.kind \in {"enriched", "processed"}
     /\ MentionsEmergency(input.value.description)) =>
    output.value.priority = "High"

\* the fixed table of statuses
ProcessingStatusRequired(status, isDefault) ==
  CASE status \in {"Resolved", "Closed"} -> "resolved"
    [] status \in {"In Progress", "in_progress"} -> "in_progress"
    [] status = "Escalated" -> "escalated"
    [] status = "Assigned" -> "assigned"
    [] OTHER -> IF isDefault THEN "pending" ELSE "assigned"

\* C16: on its normal path enrichComplaintWithDepartment maps the status of
\* the complaint through the fixed table, any other status and a missing one
\* giving 'pending' under a default mapping and 'assigned' otherwise; so
\* 'pending' implies a default mapping
C16_StatusTable ==
  (output.kind = "enriched" /\ ~output.failed) =>
    /\ output.value.processingStatus =
         ProcessingStatusRequired(input.value.status, output.value.isDefaultMapping)
    /\ (output.value.processingStatus = "pending") => output.value.isDefaultMapping

\* a complaint in progress under a non-default mapping is 'in_progress'
C16_Witness ==
  /\ output.kind = "enriched"
  /\ ~output.failed
  /\ input.value.status = "In Progress"
  /\ ~output.value.isDefaultMapping
  /\ output.value.processingStatus = "in_progress"

(***************************************************************************)
(* Properties of the functions that write processed complaints             *)
(***************************************************************************)
\* C17: when one complaint of a batch fails enrichment, every other complaint
\* of the batch is still enriched and returned, and a record is returned for
\* the failed one as well; stated for processBatchComplaints, with the writes
\* of the batch succeeding
C17_FailureIsIsolated ==
  (/\ output.kind \in {"batchReturned", "batchThrown"}
   /\ ~output.commitFailed
   /\ \E k \in 1..Len(output.settled) : output.settled[k].pc = "thrown"
   /\ \E k \in 1..Len(output.settled) : output.settled[k].pc = "done") =>
    /\ output.kind = "batchReturned"
    /\ Len(output.list) = Len(input.list)
    /\ \A k \in 1..Len(output.settled) :
         output.settled[k].pc = "done" => output.list[k] = output.settled[k].value

\* C19: a failure while writing the processed_complaints record or the
\* notification record does not roll back the enrichment: a batch whose
\* complaints were all processed is returned by processBatchComplaints
\* whatever happens to its writes, and saveProcessedComplaint keeps the
\* saved record when the notification cannot be written
C19_WriteFailureKeepsProcessed ==
  /\ (/\ output.kind \in {"batchReturned", "batchThrown"}
      /\ output.commitFailed
      /\ output.settled # <<>>
      /\ \A k \in 1..Len(output.settled) : output.settled[k].pc = "done") =>
       /\ output.kind = "batchReturned"
       /\ output.list = [k \in 1..Len(output.settled) |-> output.settled[k].value]
  /\ (output.kind = "saved" /\ output.fault = "notifications") =>
       /\ output.value \in BOOLEAN
       /\ output.value =>
            /\ Len(written.processed_complaints) = 1
            /\ written.processed_complaints[1].complaintId = input.value.complaintId

(***************************************************************************)
(* Properties of the monitor                                               *)
(***************************************************************************)
\* C20: the only field ever written to a document of the raw complaints
\* collection is processed: a step keeps every document, keeps every other
\* field of it as it was and adds no field other than processed
C20_OnlyProcessedWritten ==
  [][\A d \in complaints :
       \E e \in complaints' :
         /\ e.id = d.id
         /\ DOMAIN d.data \subseteq DOMAIN e.data
         /\ \A f \in DOMAIN e.data :
              f = "processed" \/ (f \in DOMAIN d.data /\ e.data[f] = d.data[f])]_vars

\* the complaint ids handed to the callback of the monitor, oldest first
RECURSIVE DeliveredIds(_)
DeliveredIds(lists) ==
  IF lists = <<>> THEN <<>>
  ELSE [k \in 1..Len(Head(lists)) |-> Head(lists)[k].complaintId]
         \o DeliveredIds(Tail(lists))

\* no element occurs twice
Distinct(seq) == \A i, j \in 1..Len(seq) : seq[i] = seq[j] => i = j

\* C26: under one subscription of monitorIncomingComplaints no complaint id
\* is written twice to processed_complaints and none is handed twice to the
\* callback, snapshots that arrive while a batch is being processed included
C26_ProcessedAtMostOnce ==
  /\ Distinct([k \in 1..Len(written.processed_complaints) |->
                 written.processed_complaints[k].complaintId])
  /\ Distinct(DeliveredIds(monitorDelivered))

\* the elements of a sequence
Range(seq) == { seq[k] : k \in 1..Len(seq) }

\* C27: the monitor marks a raw complaint processed only in the step that
\* ends a handler whose processBatchComplaints returned and saved a result
\* for it; it invokes the callback only in the step in which the markers of
\* the snapshot are committed; a handler whose processing or whose marker
\* commit failed invokes no callback and marks nothing; and a snapshot selects
\* exactly the complaints it holds that are not marked, so those left
\* unmarked are selected again and a marked complaint never is
C27_MarkAfterProcessingCallbackAfterMark ==
  [][LET ended == Len(monitor'.runs) < Len(monitor.runs)
         started == Len(monitor'.runs) > Len(monitor.runs)
         called == monitorDelivered' # monitorDelivered
         newlyMarked ==
           { d.id : d \in { d \in complaints :
                              /\ Unprocessed(d)
                              /\ \E e \in complaints' :
                                   e.id = d.id /\ ~Unprocessed(e) } }
     IN /\ newlyMarked # {} =>
             /\ ended
             /\ monitor'.last.outcome = "delivered"
             /\ newlyMarked \subseteq Range(monitor'.last.ids)
             /\ \A id \in newlyMarked :
                  \E k \in 1..Len(written.processed_complaints) :
                    written.processed_complaints[k].complaintId = id
        /\ called =>
             /\ ended
             /\ monitor'.last.outcome = "delivered"
             /\ Len(monitorDelivered') = Len(monitorDelivered) + 1
             /\ Range(DeliveredIds(<<monitorDelivered'[Len(monitorDelivered')]>>))
                  = Range(monitor'.last.ids)
             /\ \A id \in Range(monitor'.last.ids) :
                  \A e \in complaints' : e.id = id => ~Unprocessed(e)
        /\ (ended /\ monitor'.last.outcome \in {"processingFailed", "commitFailed"}) =>
             /\ ~called
             /\ complaints' = complaints
        /\ started =>
             Range(RunIds(monitor'.runs[Len(monitor'.runs)])) =
               { d.id : d \in { d \in complaints :
                                  Unprocessed(d) /\ Has(d.data, "createdAt") } }]_vars

\* the processing of a snapshot failed, nothing was handed to the callback,
\* its complaint is still unmarked and a handler in flight has selected it
C27_Witness ==
  /\ monitor.last.outcome = "processingFailed"
  /\ monitorDelivered = <<>>
  /\ \E d \in complaints :
       /\ Unprocessed(d)
       /\ d.id \in Range(monitor.last.ids)
       /\ \E r \in 1..Len(monitor.runs) : d.id \in Range(RunIds(monitor.runs[r]))

(***************************************************************************)
(* Properties of the listeners under failures                              *)
(***************************************************************************)
\* C18: a failure of the stream, and an exception raised while the snapshot
\* handler enriches and filters, reach the subscriber as one invocation of
\* the callback with an empty list, and no exception leaves the handler; for
\* listenToEnrichedComplaints and listenToUserComplaints
C18_FailureIsOneEmptyCallback ==
  /\ ~delivered.threw
  /\ ~userDelivered.threw
  /\ (delivered.event \in {"exception", "error"}) =>
       (delivered.has /\ delivered.calls = 1 /\ delivered.list = <<>>)
  /\ (userDelivered.event = "error") =>
       (userDelivered.has /\ userDelivered.calls = 1 /\ userDelivered.list = <<>>)

\* the department filter met a record without a department: the handler of
\* listenToEnrichedComplaints took its catch block, after the stream of
\* listenToUserComplaints had failed
C18_Witness ==
  /\ delivered.event = "exception"
  /\ delivered.list = <<>>
  /\ userDelivered.event = "error"
  /\ complaints # {}

====
